---- MODULE Spec2Model ----
(***************************************************************************)
(* Model of the recipe chat bot's query-resolution pipeline: the POST      *)
(* handler of app/api/query/route.ts together with the collaborators it    *)
(* awaits (the store, the embedding provider, the Ollama probe and the     *)
(* Ollama generator).  One request is handled at a time; the handler is    *)
(* cut at its await points, so that every outbound call is one step and    *)
(* is recorded in the request's call log.                                  *)
(*                                                                         *)
(* Strings are TLA+ strings; distances are kept in hundredths (the code's  *)
(* 1 - score/100 is 100 - score here, 0.5 is 50); an embedding vector is   *)
(* one integer coordinate and <-> is the L2 distance on it.  Messages are  *)
(* strings, as the request interface declares them.                        *)
(***************************************************************************)
EXTENDS Integers, Sequences, FiniteSets, TLC

\* null for a string-valued field, and for an integer-valued one (the integers
\* of the program, minutes and counts, are never negative)
NULL == "<null>"
NullInt == -1

(***************************************************************************)
(* Bounds of the model.                                                    *)
(***************************************************************************)
\* query and stored vectors range over 0..MaxVec
MaxVec == 1

(***************************************************************************)
(* JavaScript string primitives used by the handler.                       *)
(***************************************************************************)
CharAt(s, i) == SubSeq(s, i, i)

UpperLetters == "ABCDEFGHIJKLMNOPQRSTUVWXYZ"
LowerLetters == "abcdefghijklmnopqrstuvwxyz"
Digits == "0123456789"

RECURSIVE IndexIn(_, _, _)
\* position of the one-character string c in s at or after i, 0 if absent
IndexIn(c, s, i) ==
  IF i > Len(s) THEN 0
  ELSE IF CharAt(s, i) = c THEN i
  ELSE IndexIn(c, s, i + 1)

IsDigit(c) == IndexIn(c, Digits, 1) > 0
IsSpace(c) == c \in {" ", "\t", "\n", "\r"}
\* \w of a JavaScript regular expression
IsWordChar(c) ==
  \/ IndexIn(c, LowerLetters, 1) > 0
  \/ IndexIn(c, UpperLetters, 1) > 0
  \/ IsDigit(c)
  \/ c = "_"

LowerChar(c) ==
  LET k == IndexIn(c, UpperLetters, 1)
  IN IF k > 0 THEN CharAt(LowerLetters, k) ELSE c

RECURSIVE toLowerCase(_)
\* s.toLowerCase(), one half of s after the other
toLowerCase(s) ==
  IF Len(s) <= 1 THEN LowerChar(s)
  ELSE toLowerCase(SubSeq(s, 1, Len(s) \div 2))
         \o toLowerCase(SubSeq(s, Len(s) \div 2 + 1, Len(s)))

RECURSIVE trimStart(_)
trimStart(s) ==
  IF s = "" THEN ""
  ELSE IF IsSpace(CharAt(s, 1)) THEN trimStart(SubSeq(s, 2, Len(s)))
  ELSE s

RECURSIVE trimEnd(_)
trimEnd(s) ==
  IF s = "" THEN ""
  ELSE IF IsSpace(CharAt(s, Len(s))) THEN trimEnd(SubSeq(s, 1, Len(s) - 1))
  ELSE s

trim(s) == trimEnd(trimStart(s))

\* s.slice(0, n)
slice0(s, n) == SubSeq(s, 1, IF n < Len(s) THEN n ELSE Len(s))

StartsWithAt(s, i, t) ==
  /\ i >= 1
  /\ i + Len(t) - 1 <= Len(s)
  /\ SubSeq(s, i, i + Len(t) - 1) = t

\* s.includes(t)
includes(s, t) == \E i \in 1..(Len(s) - Len(t) + 1) : StartsWithAt(s, i, t)

RECURSIVE replaceAll(_, _, _)
\* s.replace(/c/g, t) for a one-character pattern c, one half of s after the
\* other
replaceAll(s, c, t) ==
  IF Len(s) <= 1 THEN (IF s = c THEN t ELSE s)
  ELSE replaceAll(SubSeq(s, 1, Len(s) \div 2), c, t)
         \o replaceAll(SubSeq(s, Len(s) \div 2 + 1, Len(s)), c, t)

RECURSIVE SplitFrom(_, _, _, _)
\* s.split(/\s+/): cur is the piece being read, acc the pieces closed so far
SplitFrom(s, i, cur, acc) ==
  IF i > Len(s) THEN Append(acc, cur)
  ELSE IF IsSpace(CharAt(s, i))
       THEN IF i > 1 /\ IsSpace(CharAt(s, i - 1))
            THEN SplitFrom(s, i + 1, cur, acc)
            ELSE SplitFrom(s, i + 1, "", Append(acc, cur))
       ELSE SplitFrom(s, i + 1, cur \o CharAt(s, i), acc)

split(s) == SplitFrom(s, 1, "", <<>>)

RECURSIVE DigitsEnd(_, _)
\* index of the last digit of the digit run that starts at i
DigitsEnd(s, i) ==
  IF i < Len(s) /\ IsDigit(CharAt(s, i + 1)) THEN DigitsEnd(s, i + 1) ELSE i

RECURSIVE SkipSpaces(_, _)
\* first index at or after i that holds no white space
SkipSpaces(s, i) ==
  IF i <= Len(s) /\ IsSpace(CharAt(s, i)) THEN SkipSpaces(s, i + 1) ELSE i

RECURSIVE parseInt(_)
\* parseInt(d, 10) of a string of digits
parseInt(d) ==
  IF d = "" THEN 0
  ELSE 10 * parseInt(SubSeq(d, 1, Len(d) - 1))
         + (IndexIn(CharAt(d, Len(d)), Digits, 1) - 1)

\* \b holds between positions i - 1 and i of s
WordBoundary(s, i) ==
  LET before == i > 1 /\ i - 1 <= Len(s) /\ IsWordChar(CharAt(s, i - 1))
      after  == i >= 1 /\ i <= Len(s) /\ IsWordChar(CharAt(s, i))
  IN before # after

Min(a, b) == IF a < b THEN a ELSE b

(***************************************************************************)
(* Pure functions of route.ts.                                             *)
(***************************************************************************)
\* a JavaScript value is truthy: not null, not the empty string, not 0
Truthy(x) == x # NULL /\ x # ""
TruthyNum(n) == n # NullInt /\ n # 0

\* n || d
OrElse(n, d) == IF TruthyNum(n) THEN n ELSE d

NotArray == [isArray |-> FALSE, steps |-> <<>>]

RECURSIVE ParseSteps(_, _, _)
\* the elements of a JSON array of strings, read from position i of s (just
\* after the opening bracket or a comma); NotArray when s is no such array
ParseSteps(s, i, acc) ==
  LET open == SkipSpaces(s, i)
  IN IF ~StartsWithAt(s, open, "\"") THEN NotArray
     ELSE LET close == IndexIn("\"", s, open + 1)
          IN IF close = 0 THEN NotArray
             ELSE LET step == SubSeq(s, open + 1, close - 1)
                      acc2 == Append(acc, step)
                      next == SkipSpaces(s, close + 1)
                  IN IF includes(step, "\\") THEN NotArray
                     ELSE IF next = Len(s) /\ CharAt(s, next) = "]"
                          THEN [isArray |-> TRUE, steps |-> acc2]
                     ELSE IF StartsWithAt(s, next, ",")
                          THEN ParseSteps(s, next + 1, acc2)
                     ELSE NotArray

\* JSON.parse(instructions) when it yields an array (of step strings), else
\* NotArray: the parse threw or the value is no array
JsonArray(s) ==
  LET t == trim(s)
  IN IF t = "[]" THEN [isArray |-> TRUE, steps |-> <<>>]
     ELSE IF StartsWithAt(t, 1, "[") THEN ParseSteps(t, 2, <<>>)
     ELSE NotArray

RECURSIVE JoinSteps(_, _)
\* parsed.map(...).join('\n') over the first n steps: 'index + 1. step' lines
JoinSteps(steps, n) ==
  IF n = 0 THEN ""
  ELSE (IF n > 1 THEN JoinSteps(steps, n - 1) \o "\n" ELSE "")
         \o ToString(n) \o ". " \o steps[n]

formatInstructions(instructions) ==
  IF ~Truthy(instructions) THEN "Not specified"
  ELSE LET parsed == JsonArray(instructions)
       IN IF parsed.isArray THEN JoinSteps(parsed.steps, Len(parsed.steps))
          ELSE instructions

\* /a.*b/ has a match in s ('.' matches no line terminator)
DotStarMatch(s, a, b) ==
  \E i \in 1..Len(s) :
    /\ StartsWithAt(s, i, a)
    /\ \E j \in (i + Len(a))..Len(s) :
         /\ StartsWithAt(s, j, b)
         /\ \A k \in (i + Len(a))..(j - 1) : CharAt(s, k) \notin {"\n", "\r"}

isAskingForIngredients(lowerMessage) ==
  \/ includes(lowerMessage, "ingredient")
  \/ DotStarMatch(lowerMessage, "what", "in")
  \/ DotStarMatch(lowerMessage, "what", "need")
  \/ DotStarMatch(lowerMessage, "what", "use")

isAskingForTime(lowerMessage) ==
  \E w \in {"time", "how long", "duration", "minutes", "hours"} :
    includes(lowerMessage, w)

isAskingForInstructions(lowerMessage) ==
  \/ DotStarMatch(lowerMessage, "how", "make")
  \/ DotStarMatch(lowerMessage, "how", "cook")
  \/ DotStarMatch(lowerMessage, "how", "prepare")
  \/ \E w \in {"steps", "instructions", "recipe"} : includes(lowerMessage, w)

\* (r.prepTime || 0) + (r.cookTime || 0)
TotalTime(r) == OrElse(r.prepTime, 0) + OrElse(r.cookTime, 0)

\* the block the forEach of generateIntelligentFallbackResponse adds for r
FallbackItem(r, index, askIngredients, askInstructions) ==
  IF askIngredients \/ askInstructions THEN ""
  ELSE ToString(index) \o ". " \o r.title \o "\n"
       \o (IF TotalTime(r) > 0
           THEN "   Time: " \o ToString(TotalTime(r)) \o " minutes"
                \o (IF TruthyNum(r.prepTime) /\ TruthyNum(r.cookTime)
                    THEN " (" \o ToString(r.prepTime) \o " min prep, "
                         \o ToString(r.cookTime) \o " min cook)"
                    ELSE "")
                \o "\n"
           ELSE "")
       \o (IF Truthy(r.ingredients) /\ ~askIngredients
           THEN "   Ingredients: "
                \o slice0(replaceAll(r.ingredients, ",", ", "), 150)
                \o (IF Len(r.ingredients) > 150 THEN "..." ELSE "")
                \o "\n"
           ELSE "")
       \o (IF Truthy(r.cuisine) THEN "   Cuisine: " \o r.cuisine \o "\n" ELSE "")
       \o "\n"

RECURSIVE FallbackItems(_, _, _, _)
FallbackItems(finalResults, n, askIngredients, askInstructions) ==
  IF n = 0 THEN ""
  ELSE FallbackItems(finalResults, n - 1, askIngredients, askInstructions)
       \o FallbackItem(finalResults[n], n, askIngredients, askInstructions)

\* the opening of the reply, chosen by the focus of the question
FallbackHeader(finalResults, askIngredients, askTime, askInstructions) ==
  LET first == finalResults[1]
      n == Len(finalResults)
  IN IF askIngredients /\ Truthy(first.ingredients)
     THEN "Here are the ingredients for " \o first.title \o ":\n\n"
          \o first.ingredients \o "\n\n"
          \o (IF n > 1
              THEN "I also found " \o ToString(n - 1) \o " other similar recipe"
                   \o (IF n > 2 THEN "s" ELSE "") \o " you might like.\n"
              ELSE "")
     ELSE IF askTime /\ (TruthyNum(first.prepTime) \/ TruthyNum(first.cookTime))
     THEN first.title \o " takes approximately " \o ToString(TotalTime(first))
          \o " minutes"
          \o (IF TruthyNum(first.prepTime) /\ TruthyNum(first.cookTime)
              THEN " (" \o ToString(first.prepTime) \o " minutes prep, "
                   \o ToString(first.cookTime) \o " minutes cooking)"
              ELSE "")
          \o ".\n\n"
     ELSE IF askInstructions /\ Truthy(first.instructions)
     THEN LET formatted == formatInstructions(first.instructions)
          IN "Here's how to make " \o first.title \o ":\n\n"
             \o slice0(formatted, 500)
             \o (IF Len(formatted) > 500 THEN "..." ELSE "") \o "\n\n"
     ELSE "I found " \o ToString(n) \o " great recipe"
          \o (IF n > 1 THEN "s" ELSE "") \o " for you:\n\n"

generateIntelligentFallbackResponse(message, results, requestedCount) ==
  LET limit == IF TruthyNum(requestedCount) /\ requestedCount > 0
               THEN requestedCount
               ELSE Min(3, Len(results))
      finalResults == SubSeq(results, 1, Min(limit, Len(results)))
      lowerMessage == toLowerCase(message)
      askIngredients == isAskingForIngredients(lowerMessage)
      askTime == isAskingForTime(lowerMessage)
      askInstructions == isAskingForInstructions(lowerMessage)
  IN IF Len(finalResults) = 0
     THEN "I couldn't find any recipes matching \"" \o message
          \o "\". Try being more specific or using ingredient names."
     ELSE trim(FallbackHeader(finalResults, askIngredients, askTime,
                              askInstructions)
               \o FallbackItems(finalResults, Len(finalResults),
                                askIngredients, askInstructions))

(***************************************************************************)
(* Pure parts of the POST handler.                                         *)
(***************************************************************************)
StopWords ==
  {"the", "and", "for", "with", "from", "that", "this", "give", "me",
   "recipes", "recipe"}

IsSearchTerm(term) == Len(term) > 2 /\ term \notin StopWords

\* message.toLowerCase().split(/\s+/).filter(...)
searchTerms(message) ==
  LET pieces == split(toLowerCase(message))
      F[i \in 0..Len(pieces)] ==
        IF i = 0 THEN <<>>
        ELSE IF IsSearchTerm(pieces[i]) THEN Append(F[i - 1], pieces[i])
        ELSE F[i - 1]
  IN F[Len(pieces)]

\* /(\d+)\s*(?:min|minute|mins)\s*(?:prep|preparation)/i matches at i, the
\* start of a run of digits
PrepTimeMatchAt(lower, i) ==
  /\ i <= Len(lower)
  /\ IsDigit(CharAt(lower, i))
  /\ LET unit == SkipSpaces(lower, DigitsEnd(lower, i) + 1)
     IN \E w \in {"min", "minute", "mins"} :
          /\ StartsWithAt(lower, unit, w)
          /\ StartsWithAt(lower, SkipSpaces(lower, unit + Len(w)), "prep")

\* prepTimeMatch ? parseInt(prepTimeMatch[1], 10) : null
maxPrepTime(message) ==
  LET lower == toLowerCase(message)
      starts == {i \in 1..Len(lower) : PrepTimeMatchAt(lower, i)}
  IN IF starts = {} THEN NullInt
     ELSE LET i == CHOOSE k \in starts : \A j \in starts : k <= j
          IN parseInt(SubSeq(lower, i, DigitsEnd(lower, i)))

CountWords == {"recipe", "recipes", "dish", "dishes"}

\* /\b(\d+)\s*(?:recipe|recipes|dish|dishes)?\b/i matches at i
NumberMatchAt(lower, i) ==
  /\ i <= Len(lower)
  /\ IsDigit(CharAt(lower, i))
  /\ WordBoundary(lower, i)
  /\ LET after == DigitsEnd(lower, i) + 1
     IN \E k \in after..SkipSpaces(lower, after) :
          \/ WordBoundary(lower, k)
          \/ \E w \in CountWords :
               StartsWithAt(lower, k, w) /\ WordBoundary(lower, k + Len(w))

\* numberMatch ? parseInt(numberMatch[1], 10) : null
requestedCountOf(message) ==
  LET lower == toLowerCase(message)
      starts == {i \in 1..Len(lower) : NumberMatchAt(lower, i)}
  IN IF starts = {} THEN NullInt
     ELSE LET i == CHOOSE k \in starts : \A j \in starts : k <= j
          IN parseInt(SubSeq(lower, i, DigitsEnd(lower, i)))

GreetingPhrases ==
  {"hi", "hello", "hey", "how are you", "what's up", "how do you do",
   "good morning", "good afternoon", "good evening", "thanks", "thank you",
   "bye", "goodbye", "who are you", "what are you", "help", "help me"}

FoodKeywords ==
  {"recipe", "ingredient", "food", "dish", "cook", "bake", "make", "prepare",
   "cuisine", "meal", "breakfast", "lunch", "dinner", "snack", "dessert",
   "appetizer", "chicken", "beef", "pork", "fish", "vegetable", "pasta",
   "rice", "bread", "soup", "salad", "pizza", "burger", "sandwich", "cake",
   "cookie", "pie", "sauce", "spice", "herb", "flavor", "taste", "kitchen",
   "cooking", "baking", "grill", "fry", "boil", "steam", "roast"}

\* /^(hi|hello|...)$/i.test(message.trim())
MatchesGreeting(message) == toLowerCase(trim(message)) \in GreetingPhrases

\* message.toLowerCase().match(/\b(recipe|ingredient|...)\b/i)
MatchesFoodKeyword(message) ==
  LET lower == toLowerCase(message)
  IN \E i \in 1..Len(lower) :
       \E w \in FoodKeywords :
         /\ StartsWithAt(lower, i, w)
         /\ WordBoundary(lower, i)
         /\ WordBoundary(lower, i + Len(w))

\* isGeneralQuestion without its short-message alternative
isGeneralQuestionGreetingOnly(message, results) ==
  Len(results) = 0 /\ MatchesGreeting(message)

isGeneralQuestion(message, results) ==
  /\ Len(results) = 0
  /\ \/ MatchesGreeting(message)
     \/ Len(trim(message)) < 10 /\ ~MatchesFoodKeyword(message)

\* titleLowerOf without the trim: titles are compared with their white space
titleLowerOfUntrimmed(r) == toLowerCase(r.title)

titleLowerOf(r) == trim(toLowerCase(r.title))

RECURSIVE FilterUnseen(_, _, _, _)
\* results.filter(...) from row i on: seenTitles holds the titles met so far
\* and kept the rows that passed
FilterUnseen(results, i, seenTitles, kept) ==
  IF i > Len(results) THEN kept
  ELSE LET titleLower == titleLowerOf(results[i])
       IN IF titleLower = "" \/ titleLower \in seenTitles
          THEN FilterUnseen(results, i + 1, seenTitles, kept)
          ELSE FilterUnseen(results, i + 1, seenTitles \cup {titleLower},
                            Append(kept, results[i]))

uniqueResultsOf(results) == FilterUnseen(results, 1, {}, <<>>)

\* limitForAI without the requested count: always the default of 3
limitForAIIgnoresCount(requestedCount, uniqueResults) ==
  Min(3, Len(uniqueResults))

limitForAI(requestedCount, uniqueResults) ==
  IF TruthyNum(requestedCount) /\ requestedCount > 0
  THEN Min(requestedCount, Len(uniqueResults))
  ELSE Min(3, Len(uniqueResults))

aiResultsOf(requestedCount, uniqueResults) ==
  SubSeq(uniqueResults, 1, limitForAI(requestedCount, uniqueResults))

NumOrNotSpecified(n) == IF TruthyNum(n) THEN ToString(n) ELSE "Not specified"

ContextEntry(r) ==
  LET formatted == formatInstructions(r.instructions)
  IN "\nRecipe: " \o r.title
     \o "\nIngredients: "
     \o (IF Truthy(r.ingredients) THEN r.ingredients ELSE "Not specified")
     \o "\nInstructions: " \o slice0(formatted, 400)
     \o (IF Len(formatted) > 400 THEN "..." ELSE "")
     \o "\nPrep Time: " \o NumOrNotSpecified(r.prepTime) \o " minutes"
     \o "\nCook Time: " \o NumOrNotSpecified(r.cookTime) \o " minutes"
     \o "\nTotal Time: " \o NumOrNotSpecified(r.totalTime) \o " minutes"
     \o "\nCuisine: "
     \o (IF Truthy(r.cuisine) THEN r.cuisine ELSE "Not specified")
     \o "\n---\n"

RECURSIVE contextOf(_, _)
\* the context string built from the first n rows of aiResults
contextOf(aiResults, n) ==
  IF n = 0 THEN ""
  ELSE contextOf(aiResults, n - 1) \o ContextEntry(aiResults[n])

Plural(n) == IF n > 1 THEN "s" ELSE ""

countInstruction(requestedCount) ==
  IF TruthyNum(requestedCount)
  THEN " The user specifically requested " \o ToString(requestedCount)
       \o " recipe" \o Plural(requestedCount)
       \o ", so focus on providing exactly that many."
  ELSE ""

promptOf(message, requestedCount, context) ==
  "You are a professional chef AI assistant. Your job is to help users find recipes and answer cooking questions.\n\n"
  \o "CURRENT USER QUERY: \"" \o message \o "\"\n"
  \o countInstruction(requestedCount) \o "\n\n"
  \o "AVAILABLE RECIPES FROM DATABASE:\n" \o context \o "\n\n"
  \o "INSTRUCTIONS:\n"
  \o "1. Answer the user's CURRENT query: \"" \o message \o "\"\n"
  \o "2. "
  \o (IF TruthyNum(requestedCount)
      THEN "Provide exactly " \o ToString(requestedCount) \o " recipe"
           \o Plural(requestedCount) \o " as requested"
      ELSE "Recommend the best matching recipe(s) from the database above")
  \o "\n"
  \o "3. Provide a clear, helpful response based ONLY on the current query\n"
  \o "4. Explain why the recipe(s) fit the user's needs\n"
  \o "5. Provide clear step-by-step instructions when relevant\n"
  \o "6. Use ONLY plain text - NO markdown, NO asterisks, NO special formatting\n"
  \o "7. Write naturally for both reading and text-to-speech\n"
  \o "8. DO NOT reference previous conversations or history - treat each query as fresh\n\n"
  \o "Now provide your response:"

generalPromptOf(message) ==
  "You are a friendly and helpful AI chef assistant. You can help with cooking questions, recipe suggestions, and general conversation.\n\n"
  \o "CURRENT USER MESSAGE: " \o message \o "\n\n"
  \o "Provide a friendly, helpful response that:\n"
  \o "- If the user is greeting you, greet them back warmly\n"
  \o "- If they're asking for help, offer assistance\n"
  \o "- Keep responses concise and natural\n"
  \o "- Use ONLY plain text - NO markdown formatting\n\n"
  \o "Your response:"

Greetings == {"Hello!", "Hi there!", "Hey!", "Greetings!"}

CannedResponses ==
  [hi |-> "Hello! I'm your AI chef assistant. How can I help you with recipes today?",
   hello |-> "Hi! I'm here to help you find recipes and answer cooking questions. What would you like to know?",
   howareyou |-> "I'm doing great, thank you for asking! I'm ready to help you with recipes and cooking tips. What can I help you with?",
   thanks |-> "You're welcome! Feel free to ask if you need any more recipe suggestions.",
   thankyou |-> "You're very welcome! Happy cooking!",
   bye |-> "Goodbye! Happy cooking!",
   goodbye |-> "See you later! Enjoy your cooking!",
   help |-> "I'm your AI chef assistant! I can help you:\n- Find recipes by ingredients\n- Suggest dishes based on what you have\n- Answer cooking questions\n\nJust ask me anything about recipes or cooking!"]

\* the replies responses[lowerMessage] || greetings[random] + "..." can yield
cannedReplies(message) ==
  LET lowerMessage == trim(toLowerCase(message))
      key == replaceAll(lowerMessage, " ", "")
  IN IF lowerMessage \in {"hi", "hello", "how are you", "thanks",
                          "thank you", "bye", "goodbye", "help"}
     THEN {CannedResponses[key]}
     ELSE {g \o " I'm your AI chef assistant. How can I help you with recipes?" :
             g \in Greetings}

\* (the code fences of the reply are written ''' here: a TLA+ string cannot hold
\* a grave accent)
NoRecipesReply ==
  "I don't have any recipes in my database yet. Please run the load script to import recipes first:\n\n'''bash\nnpm run load\n'''\n\nOr if you're using the TypeScript script:\n'''bash\nnpx ts-node scripts/load.ts\n'''"

rephraseReply(message) ==
  "I couldn't find any recipes matching \"" \o message \o "\". Try:\n"
  \o "- Being more specific (e.g., \"chicken pasta\" instead of \"food\")\n"
  \o "- Using ingredient names (e.g., \"tomatoes\", \"pasta\", \"chicken\")\n"
  \o "- Asking for recipe types (e.g., \"dessert\", \"breakfast\", \"italian\")"

TextSearchFailedReply ==
  "I encountered an error searching for recipes. The database might not be properly configured. Please check:\n1. Database connection is working\n2. Recipes are loaded"

(***************************************************************************)
(* The store: the Recipe and embeddings tables and the queries the         *)
(* handler issues against them.                                            *)
(***************************************************************************)
ByteOrder ==
  " \"',-.0123456789ABCDEFGHIJKLMNOPQRSTUVWXYZ[]_abcdefghijklmnopqrstuvwxyz"

RECURSIVE StrLess(_, _)
\* a sorts strictly before b under ORDER BY ... ASC (byte order)
StrLess(a, b) ==
  IF b = "" THEN FALSE
  ELSE IF a = "" THEN TRUE
  ELSE LET ca == IndexIn(CharAt(a, 1), ByteOrder, 1)
           cb == IndexIn(CharAt(b, 1), ByteOrder, 1)
       IN IF ca # cb THEN ca < cb
          ELSE StrLess(SubSeq(a, 2, Len(a)), SubSeq(b, 2, Len(b)))

\* ORDER BY "ingredients" ASC: NULLs sort last
IngredientsBefore(a, b) ==
  IF a.ingredients = NULL THEN FALSE
  ELSE IF b.ingredients = NULL THEN TRUE
  ELSE StrLess(a.ingredients, b.ingredients)

RECURSIVE SortedSeqs(_, _)
\* the orders in which a query may return the rows S, where <<a, b>> in
\* before says that a must come before b; rows that tie come in any order
SortedSeqs(S, before) ==
  IF S = {} THEN {<<>>}
  ELSE UNION {{<<m>> \o t : t \in SortedSeqs(S \ {m}, before)} :
                m \in {x \in S : \A y \in S : <<y, x>> \notin before}}

Take(seq, n) == SubSeq(seq, 1, Min(n, Len(seq)))

\* { field: { contains: term, mode: 'insensitive' } }
ContainsInsensitive(field, term) ==
  field # NULL /\ includes(toLowerCase(field), toLowerCase(term))

\* the whereClause of the text search
MatchesWhere(r, terms, maxPrep) ==
  /\ \E k \in 1..Len(terms) :
       \/ ContainsInsensitive(r.ingredients, terms[k])
       \/ ContainsInsensitive(r.title, terms[k])
       \/ ContainsInsensitive(r.instructions, terms[k])
  /\ maxPrep # NullInt => (r.prepTime # NullInt /\ r.prepTime <= maxPrep)

\* take: 10 of the text search
TextSearchTake == 10
\* LIMIT 5 of the vector search, slice(0, 5) and take: 5 of the text search
TopK == 5

\* prisma.recipe.findMany({ where, take: 10, orderBy: [{ ingredients: 'asc' }] })
findManyMatching(rows, terms, maxPrep) ==
  LET hit == {r \in rows : MatchesWhere(r, terms, maxPrep)}
      before == {p \in hit \X hit : IngredientsBefore(p[1], p[2])}
  IN {Take(q, TextSearchTake) : q \in SortedSeqs(hit, before)}

\* prisma.recipe.findMany({ take: 5, orderBy: { id: 'asc' } })
findManySample(rows) ==
  LET before == {p \in rows \X rows : p[1].id < p[2].id}
  IN {Take(q, TopK) : q \in SortedSeqs(rows, before)}

WithDistance(r, d) ==
  [id |-> r.id, title |-> r.title, ingredients |-> r.ingredients,
   instructions |-> r.instructions, prepTime |-> r.prepTime,
   cookTime |-> r.cookTime, totalTime |-> r.totalTime,
   cuisine |-> r.cuisine, distance |-> d]

Abs(n) == IF n < 0 THEN 0 - n ELSE n

\* e.vector <-> q, in hundredths
L2Distance(v, q) == 100 * Abs(v - q)

\* SELECT r.*, e.vector <-> q AS distance FROM embeddings e JOIN Recipe r
\* ON e.recipeId = r.id ORDER BY e.vector <-> q LIMIT 5
nearestNeighbours(rows, embs, q) ==
  LET joined == {WithDistance(r, L2Distance(e.vector, q)) :
                   <<e, r>> \in {p \in embs \X rows : p[1].recipeId = p[2].id}}
      before == {p \in joined \X joined : p[1].distance < p[2].distance}
  IN {Take(s, TopK) : s \in SortedSeqs(joined, before)}

\* the relevance score of the text search
relevanceScore(r, terms) ==
  LET lowerTitle == toLowerCase(IF Truthy(r.title) THEN r.title ELSE "")
      lowerIngredients ==
        toLowerCase(IF Truthy(r.ingredients) THEN r.ingredients ELSE "")
      S[k \in 0..Len(terms)] ==
        IF k = 0 THEN 0
        ELSE S[k - 1]
             + (IF includes(lowerIngredients, terms[k]) THEN 10 ELSE 0)
             + (IF includes(lowerTitle, terms[k]) THEN 5 ELSE 0)
  IN S[Len(terms)]

RECURSIVE InsertByScore(_, _, _)
\* r put into the list sorted by descending score, after the rows that score
\* at least as much (Array.prototype.sort is stable)
InsertByScore(sorted, r, terms) ==
  IF sorted = <<>> THEN <<r>>
  ELSE IF relevanceScore(Head(sorted), terms) >= relevanceScore(r, terms)
       THEN <<Head(sorted)>> \o InsertByScore(Tail(sorted), r, terms)
       ELSE <<r>> \o sorted

\* sortByScore without the sort: the rows stay in the order of findMany
sortByScoreSkipped(textResults, terms) == textResults

\* scoredResults.sort((a, b) => b.relevanceScore - a.relevanceScore)
sortByScore(textResults, terms) ==
  LET F[i \in 0..Len(textResults)] ==
        IF i = 0 THEN <<>>
        ELSE InsertByScore(F[i - 1], textResults[i], terms)
  IN F[Len(textResults)]

\* what the findMany of the text search may return: the matching rows when
\* the message has search terms, the sample when it has none
textSearchRows(rows, msg) ==
  IF Len(searchTerms(msg)) > 0
  THEN findManyMatching(rows, searchTerms(msg), maxPrepTime(msg))
  ELSE findManySample(rows)

\* the candidates the text search makes of the rows findMany returned
scoredTopResults(textResults, terms) ==
  LET top == Take(sortByScore(textResults, terms), TopK)
  IN [i \in 1..Len(top) |->
        WithDistance(top[i], 100 - relevanceScore(top[i], terms))]

\* the candidates of the no-search-terms sample
sampleResults(rows) == [i \in 1..Len(rows) |-> WithDistance(rows[i], 50)]

sourcesOf(results) ==
  [i \in 1..Len(results) |->
     [title |-> results[i].title, prepTime |-> results[i].prepTime,
      cookTime |-> results[i].cookTime, distance |-> results[i].distance]]

(***************************************************************************)
(* The top-level catch of the handler: the response for a thrown error.    *)
(* (The replies are written without their leading warning sign.)           *)
(***************************************************************************)
errorResponse(error) ==
  LET errorMessage == IF Truthy(error.message) THEN error.message
                      ELSE "Unknown error"
      errorName == IF Truthy(error.name) THEN error.name ELSE ""
  IN IF \/ includes(errorMessage, "Can't reach database server")
        \/ includes(errorMessage, "Connection")
        \/ includes(errorMessage, "ECONNREFUSED")
        \/ includes(errorMessage, "P1001")
     THEN [status |-> 500,
           body |-> [reply |-> "Database connection error. Please check your DATABASE_URL environment variable and ensure your database is accessible."]]
     ELSE IF \/ includes(errorMessage, "relation")
             \/ includes(errorMessage, "does not exist")
             \/ includes(errorMessage, "P2021")
             \/ includes(errorMessage, "P2001")
     THEN [status |-> 500,
           body |-> [reply |-> "Database tables not found. Please run database migrations:\n\n'''bash\nnpx prisma migrate deploy\n'''\n\nOr if developing locally:\n'''bash\nnpx prisma migrate dev\n'''"]]
     ELSE IF \/ includes(errorMessage, "vector")
             \/ includes(errorMessage, "pgvector")
             \/ includes(errorMessage, "operator does not exist")
     THEN [status |-> 500,
           body |-> [reply |-> "Vector extension error. Please ensure pgvector extension is enabled in your PostgreSQL database:\n\n'''sql\nCREATE EXTENSION IF NOT EXISTS vector;\n'''"]]
     ELSE IF \/ includes(errorMessage, "Model not found")
             \/ includes(errorMessage, "trained model not found")
             \/ includes(errorMessage, "inference.py")
             \/ includes(errorMessage, "Python")
     THEN [status |-> 500,
           body |-> [reply |-> "Embedding model not available. The trained model files are required for generating embeddings. Please ensure the model is properly set up."]]
     ELSE IF \/ error.status = 429
             \/ includes(errorMessage, "429")
             \/ includes(errorMessage, "rate limit")
             \/ includes(errorMessage, "Resource exhausted")
     THEN [status |-> 429,
           body |-> [reply |-> "Rate limit reached. Please wait a moment and try again."]]
     ELSE IF includes(errorName, "Prisma") \/ includes(errorMessage, "P")
     THEN [status |-> 500,
           body |-> [reply |-> "Database error: " \o errorMessage \o ". Please check your database connection and schema."]]
     ELSE [status |-> 500,
           body |-> [error |-> errorMessage,
                     reply |-> "Sorry, I encountered an error: " \o errorMessage \o ". Please try again or contact support if the issue persists."]]

(***************************************************************************)
(* The environment of the handler: the corpora the store may hold, the     *)
(* messages a client may send and what the collaborators may answer.       *)
(***************************************************************************)
ChickenPasta ==
  [id |-> 1, title |-> "Chicken Pasta", ingredients |-> "chicken,pasta,garlic",
   instructions |-> "[\"Boil pasta\", \"Add chicken\"]", prepTime |-> 10,
   cookTime |-> 20, totalTime |-> 30, cuisine |-> "Italian"]

ChickenPastaAgain ==
  [id |-> 2, title |-> "chicken PASTA ", ingredients |-> "chicken,penne",
   instructions |-> "Boil the pasta and add chicken.", prepTime |-> NullInt,
   cookTime |-> 25, totalTime |-> NullInt, cuisine |-> NULL]

PastaSalad ==
  [id |-> 3, title |-> "Pasta Salad", ingredients |-> "pasta,tomato,olive oil",
   instructions |-> "Toss.", prepTime |-> 15, cookTime |-> 0,
   totalTime |-> 15, cuisine |-> "Italian"]

Untitled ==
  [id |-> 4, title |-> "Untitled", ingredients |-> NULL, instructions |-> NULL,
   prepTime |-> NullInt, cookTime |-> NullInt, totalTime |-> NullInt,
   cuisine |-> NULL]

GarlicChicken ==
  [id |-> 5, title |-> "Garlic Chicken", ingredients |-> "chicken,garlic",
   instructions |-> "Roast the chicken.", prepTime |-> 5, cookTime |-> 40,
   totalTime |-> 45, cuisine |-> NULL]

AllRecipes ==
  {ChickenPasta, ChickenPastaAgain, PastaSalad, Untitled, GarlicChicken}

\* a row whose title is a single space, as a loader stores it from a data file
\* whose title cell holds nothing but a space
BlankTitle ==
  [id |-> 6, title |-> " ", ingredients |-> "quinoa,black beans",
   instructions |-> "Simmer.", prepTime |-> 5, cookTime |-> 15,
   totalTime |-> 20, cuisine |-> NULL]

TomatoIngredients ==
  <<"apple,tomato", "basil,tomato", "carrot,tomato", "dill,tomato",
    "egg,tomato", "fennel,tomato", "garlic,tomato", "honey,tomato",
    "kale,tomato", "leek,tomato", "tomato,zucchini">>

\* the recipes with tomato: one more than a text search takes, the last of
\* them in the order of the ingredients being the tomato soup itself
TomatoRecipes ==
  {[id |-> 10 + i,
    title |-> IF i = TextSearchTake + 1 THEN "Tomato Soup"
              ELSE "Garden Plate " \o ToString(i),
    ingredients |-> TomatoIngredients[i],
    instructions |-> NULL, prepTime |-> NullInt, cookTime |-> 10 + i,
    totalTime |-> NullInt, cuisine |-> NULL] : i \in 1..(TextSearchTake + 1)}

\* a row whose ingredients are those of another tomato recipe: the two tie on
\* the sort key of the text search
LeekTart ==
  [id |-> 22, title |-> "Leek Tomato Tart",
   ingredients |-> TomatoIngredients[TextSearchTake],
   instructions |-> NULL, prepTime |-> NullInt, cookTime |-> 35,
   totalTime |-> NullInt, cuisine |-> NULL]

Pantry == TomatoRecipes \cup {BlankTitle, LeekTart}

\* one embedding row per recipe of rows; the vectors lie in 0..MaxVec
EmbeddingsFor(rows) ==
  {[id |-> r.id, recipeId |-> r.id, vector |-> r.id % (MaxVec + 1)] : r \in rows}

Corpora ==
  {[recipes |-> {}, embeddings |-> {}],
   [recipes |-> AllRecipes, embeddings |-> {}],
   [recipes |-> {PastaSalad, Untitled},
    embeddings |-> EmbeddingsFor({PastaSalad})],
   [recipes |-> AllRecipes, embeddings |-> EmbeddingsFor(AllRecipes)],
   [recipes |-> Pantry, embeddings |-> {}]}

CheckModelMessage == "__check_model__"

\* the history field of a request body: the earlier turns of the chat
PriorTurns ==
  <<[role |-> "user", content |-> "I am allergic to garlic"],
    [role |-> "assistant", content |-> "Noted, nothing with garlic."]>>

Histories == {<<>>, PriorTurns}

\* the message field of a request body; NULL when the field is missing
Messages ==
  {NULL, "", CheckModelMessage,
   "hi", "hello", " Hey ", "zzz", "cake", "cakes", "thank you",
   "quinoa burrito bowl",
   "give me 2 recipes with chicken",
   "chicken pasta garlic",
   "what ingredients for pasta",
   "how long does chicken take",
   "pasta 12 min prep",
   "3 pasta recipes",
   "tomato soup",
   "pasta pasta pasta pasta pasta pasta pasta"}

\* errors the store client throws
StoreErrors ==
  {[name |-> "PrismaClientInitializationError",
    message |-> "Can't reach database server at db:5432", status |-> NullInt],
   [name |-> "PrismaClientKnownRequestError",
    message |-> "Raw query failed. Code: 42P01. Message: relation \"embeddings\" does not exist",
    status |-> NullInt]}

\* the bodies of the requests
Bodies ==
  {[message |-> m, history |-> <<>>] : m \in Messages}
    \cup {[message |-> "hi", history |-> PriorTurns]}

\* the error the nearest-neighbour query throws besides those of the store
\* client: the vector column of the embeddings table is of type text
QueryErrors ==
  {[name |-> "PrismaClientKnownRequestError",
    message |-> "Raw query failed. Code: 42883. Message: operator does not exist: text <-> vector",
    status |-> NullInt]}
    \cup {e \in StoreErrors : e.name = "PrismaClientInitializationError"}

\* throw new Error('Ollama API error: ' + response.status + ' - ' + errorText)
ollamaApiError(status, errorText) ==
  [name |-> "Error",
   message |-> "Ollama API error: " \o ToString(status) \o " - " \o errorText,
   status |-> NullInt]

\* the error generateText throws when fetch fails
cannotConnectError ==
  [name |-> "Error",
   message |-> "Cannot connect to Ollama at http://localhost:11434. Make sure Ollama is installed and running. Install from: https://ollama.ai",
   status |-> NullInt]

\* what generateText may throw
GeneratorErrors ==
  {ollamaApiError(429, "rate limit exceeded"), cannotConnectError}

\* the error generateEmbedding throws once every model has failed
allModelsFailed(lastError) ==
  [name |-> "Error",
   message |-> "All Hugging Face models failed. Last error: " \o lastError
                 \o ". Please ensure you have internet connectivity and Hugging Face API is accessible.",
   status |-> NullInt]

\* what generateEmbedding may throw: the provider answered 429 Too Many
\* Requests, or could not be reached
EmbeddingErrors ==
  {allModelsFailed("Hugging Face API error: Too Many Requests"),
   allModelsFailed("fetch failed")}

\* what generateText may return: data.response || ''
GeneratedTexts == {"", "Try the Chicken Pasta tonight."}

(***************************************************************************)
(* State.                                                                  *)
(***************************************************************************)
VARIABLES
  recipes,            \* the rows of the Recipe table
  embeddings,         \* the rows of the embeddings table
  pc,                 \* where the handler stands in the current request
  message,            \* the message of the current request
  recipeCount,        \* prisma.recipe.count()
  embeddingCountNum,  \* the count of the embeddings table
  qEmbedding,         \* the query vector, NullInt when there is none
  useVectorSearch,
  results,            \* the candidates of the retrieval
  requestedCount,
  uniqueResults,
  context,            \* the recipe context built for the generator
  prompt,             \* the prompt handed to generateText, NULL when none was
  route,              \* the branch the handler took after the retrieval
  ollamaAvailable,    \* what the probe of this request answered
  generated,          \* the text generateText returned, NULL when none
  response,           \* the response of the request: status and body
  calls,              \* the outbound calls of the request, in order
  errors,             \* the errors thrown in the request and who caught them
  history,            \* the history field of the body of the current request
  twin,               \* what the request before a repeated one came to
  \* one call of generateEmbedding
  embedPc,            \* where the call stands
  localModel,         \* isModelAvailable()
  modelIndex,         \* the model of HUGGINGFACE_MODELS the loop is at
  lastError,          \* the message of lastError, NULL while it is null
  fetches,            \* the fetches of the call, in order
  embedOutcome,       \* what the call returned or threw
  \* one run of the clear-database script
  clearPc,            \* the statement the script is at
  clearLocals,        \* recipeCount, embeddingCountNum and the final counts
  clearLog,           \* the statements the script has issued, in order
  \* the chat page
  messages,           \* the messages the page shows
  input,              \* the text of the input field
  isLoading,
  lastRequestTime,    \* lastRequestTime.current
  clock,              \* what Date.now() returns
  requests,           \* the requests send() has issued to /api/query
  inFlight,           \* how many of them have not settled
  sendCalls,          \* how many times send() has been called
  \* one run of loadWithStreaming
  loader              \* the variables of its closure, the parser and the queues

store == <<recipes, embeddings>>

\* the state of one request of the handler
request ==
  <<pc, message, recipeCount, embeddingCountNum, qEmbedding, useVectorSearch,
    results, requestedCount, uniqueResults, context, prompt, route,
    ollamaAvailable, generated, response, calls, errors, history, twin>>

\* the state of one call of generateEmbedding
embedVars ==
  <<embedPc, localModel, modelIndex, lastError, fetches, embedOutcome>>

\* the state of one run of the clear-database script
clearVars == <<clearPc, clearLocals, clearLog>>

\* the state of the chat page
pageVars ==
  <<messages, input, isLoading, lastRequestTime, clock, requests, inFlight,
    sendCalls>>

\* the state of the programs other than the handler
elsewhere == <<embedVars, clearVars, pageVars, loader>>

vars == <<store, request, elsewhere>>

NoOutcome == [kind |-> "none"]

\* no request has been repeated
NoTwin == [none |-> TRUE]

\* no call of generateEmbedding is under way
EmbedIdle ==
  /\ embedPc = "idle"
  /\ localModel = FALSE
  /\ modelIndex = 1
  /\ lastError = NULL
  /\ fetches = <<>>
  /\ embedOutcome = NoOutcome

NoCounts ==
  [recipeCount |-> NullInt, embeddingCountNum |-> NullInt,
   finalRecipeCount |-> NullInt, finalEmbeddingCountNum |-> NullInt]

\* the clear-database script is not running
ClearIdle ==
  /\ clearPc = "idle"
  /\ clearLocals = NoCounts
  /\ clearLog = <<>>

\* what Date.now() returns when the page is loaded: long after the 0 that
\* lastRequestTime starts from
PageLoadedAt == 10 * 1000

\* the chat page as it is loaded
PageLoaded ==
  /\ messages = <<>>
  /\ input = ""
  /\ isLoading = FALSE
  /\ lastRequestTime = 0
  /\ clock = PageLoadedAt
  /\ requests = <<>>
  /\ inFlight = 0
  /\ sendCalls = 0

\* loadWithStreaming as it is called for the file csv; parser says whether
\* Papa.parse returned a parser object
LoaderCalled(csv, parser) ==
  [csv |-> csv, parser |-> parser,
   readPos |-> 0,             \* the rows of csv the parser has delivered
   stream |-> "open",         \* open, ended or aborted
   rowCount |-> 0, processedCount |-> 0, errorCount |-> 0,
   batchQueue |-> <<>>, isProcessing |-> FALSE, shouldStop |-> FALSE,
   running |-> <<>>,          \* the executions of processBatch past line 144
   immediates |-> 0,          \* the setImmediate callbacks not yet run
   drain |-> "none",          \* where the complete callback stands
   promise |-> "pending",
   handed |-> <<>>]           \* the rows given to prisma.recipe.create

\* the loader is not running
LoaderIdle == loader = LoaderCalled(<<>>, FALSE)

\* none of the other programs is running
ElsewhereIdle == EmbedIdle /\ ClearIdle /\ PageLoaded /\ LoaderIdle

NoResponse == [status |-> 0, body |-> [none |-> TRUE]]

\* no request has arrived
RequestIdle ==
  /\ pc = "idle"
  /\ message = NULL
  /\ recipeCount = NullInt
  /\ embeddingCountNum = NullInt
  /\ qEmbedding = NullInt
  /\ useVectorSearch = FALSE
  /\ results = <<>>
  /\ requestedCount = NullInt
  /\ uniqueResults = <<>>
  /\ context = ""
  /\ prompt = NULL
  /\ route = "none"
  /\ ollamaAvailable = "unknown"
  /\ generated = NULL
  /\ response = NoResponse
  /\ calls = <<>>
  /\ errors = <<>>
  /\ history = <<>>
  /\ twin = NoTwin

Init ==
  /\ \E c \in Corpora : recipes = c.recipes /\ embeddings = c.embeddings
  /\ RequestIdle
  /\ ElsewhereIdle

Respond(status, body) ==
  /\ response' = [status |-> status, body |-> body]
  /\ pc' = "done"

Call(name) == calls' = Append(calls, name)

Caught(site, handler, error) ==
  errors' = Append(errors, [at |-> site, by |-> handler, error |-> error])

(***************************************************************************)
(* POST: from the arrival of the request to the first store query.         *)
(***************************************************************************)
\* a request arrives; the handler of the previous one has returned
Receive(m, h) ==
  /\ pc \in {"idle", "done"}
  /\ message' = m
  /\ history' = h
  /\ pc' = "received"
  /\ recipeCount' = NullInt
  /\ embeddingCountNum' = NullInt
  /\ qEmbedding' = NullInt
  /\ useVectorSearch' = FALSE
  /\ results' = <<>>
  /\ requestedCount' = NullInt
  /\ uniqueResults' = <<>>
  /\ context' = ""
  /\ prompt' = NULL
  /\ route' = "none"
  /\ ollamaAvailable' = "unknown"
  /\ generated' = NULL
  /\ response' = NoResponse
  /\ calls' = <<>>
  /\ errors' = <<>>
  /\ UNCHANGED <<store, elsewhere, twin>>

\* RejectMissing placed after the first store query instead of before it
RejectMissingAfterCount ==
  /\ pc = "received"
  /\ ~Truthy(message)
  /\ Call("recipe.count")
  /\ recipeCount' = Cardinality(recipes)
  /\ Respond(400, [error |-> "Message required"])
  /\ UNCHANGED <<store, elsewhere, history, twin,
                 message, embeddingCountNum, qEmbedding,
                 useVectorSearch, results, requestedCount, uniqueResults,
                 context, prompt, ollamaAvailable, errors, route, generated>>

\* if (!message) return 400
RejectMissing ==
  /\ pc = "received"
  /\ ~Truthy(message)
  /\ Respond(400, [error |-> "Message required"])
  /\ UNCHANGED <<store, elsewhere, history, twin,
                 message, recipeCount, embeddingCountNum, qEmbedding,
                 useVectorSearch, results, requestedCount, uniqueResults,
                 context, prompt, ollamaAvailable, calls, errors,
                 route, generated>>

\* the '__check_model__' probe; modelAvailable is what isModelAvailable() finds
CheckModel(modelAvailable) ==
  /\ pc = "received"
  /\ message = CheckModelMessage
  /\ Respond(200, [modelAvailable |-> modelAvailable,
                   reply |-> IF modelAvailable THEN "Model ready"
                             ELSE "Model not found"])
  /\ UNCHANGED <<store, elsewhere, history, twin,
                 message, recipeCount, embeddingCountNum, qEmbedding,
                 useVectorSearch, results, requestedCount, uniqueResults,
                 context, prompt, ollamaAvailable, calls, errors,
                 route, generated>>

\* await prisma.recipe.count()
CountRecipes ==
  /\ pc = "received"
  /\ Truthy(message)
  /\ message # CheckModelMessage
  /\ Call("recipe.count")
  /\ recipeCount' = Cardinality(recipes)
  /\ pc' = "countEmbeddings"
  /\ UNCHANGED <<store, elsewhere, history, twin,
                 message, embeddingCountNum, qEmbedding,
                 useVectorSearch, results, requestedCount, uniqueResults,
                 context, prompt, ollamaAvailable, response, errors,
                 route, generated>>

\* prisma.recipe.count() throws: the top-level catch answers
CountRecipesThrows(error) ==
  /\ pc = "received"
  /\ Truthy(message)
  /\ message # CheckModelMessage
  /\ Call("recipe.count")
  /\ Caught("recipe.count", "topLevel", error)
  /\ Respond(errorResponse(error).status, errorResponse(error).body)
  /\ UNCHANGED <<store, elsewhere, history, twin,
                 message, recipeCount, embeddingCountNum, qEmbedding,
                 useVectorSearch, results, requestedCount, uniqueResults,
                 context, prompt, ollamaAvailable,
                 route, generated>>

\* CountEmbeddings without the readiness gate: retrieval goes on with no recipe
CountEmbeddingsNoGate ==
  /\ pc = "countEmbeddings"
  /\ Call("embeddings.count")
  /\ embeddingCountNum' = Cardinality(embeddings)
  /\ pc' = "generateEmbedding"
  /\ UNCHANGED <<store, elsewhere, history, twin,
                 message, recipeCount, qEmbedding, useVectorSearch,
                 results, requestedCount, uniqueResults, context, prompt,
                 ollamaAvailable, errors, route, generated, response>>

\* await the count of the embeddings table, then the readiness gate
CountEmbeddings ==
  /\ pc = "countEmbeddings"
  /\ Call("embeddings.count")
  /\ embeddingCountNum' = Cardinality(embeddings)
  /\ IF recipeCount = 0
     THEN Respond(200, [reply |-> NoRecipesReply])
     ELSE pc' = "generateEmbedding" /\ UNCHANGED response
  /\ UNCHANGED <<store, elsewhere, history, twin,
                 message, recipeCount, qEmbedding, useVectorSearch,
                 results, requestedCount, uniqueResults, context, prompt,
                 ollamaAvailable, errors,
                 route, generated>>

\* the count of the embeddings table throws: the top-level catch answers
CountEmbeddingsThrows(error) ==
  /\ pc = "countEmbeddings"
  /\ Call("embeddings.count")
  /\ Caught("embeddings.count", "topLevel", error)
  /\ Respond(errorResponse(error).status, errorResponse(error).body)
  /\ UNCHANGED <<store, elsewhere, history, twin,
                 message, recipeCount, embeddingCountNum, qEmbedding,
                 useVectorSearch, results, requestedCount, uniqueResults,
                 context, prompt, ollamaAvailable,
                 route, generated>>

(***************************************************************************)
(* POST: retrieval.                                                        *)
(***************************************************************************)
\* AfterRetrieval without the early return of the no-results reply
AfterRetrievalNoEarlyReturn(res) ==
  IF isGeneralQuestion(message, res) /\ Len(res) = 0
  THEN /\ route' = "smallTalk"
       /\ pc' = "smallTalkProbe"
       /\ UNCHANGED <<requestedCount, uniqueResults, context, response>>
  ELSE /\ route' = "recipe"
       /\ requestedCount' = requestedCountOf(message)
       /\ uniqueResults' = uniqueResultsOf(res)
       /\ context' =
            LET aiResults ==
                  aiResultsOf(requestedCountOf(message), uniqueResultsOf(res))
            IN contextOf(aiResults, Len(aiResults))
       /\ pc' = "probe"
       /\ UNCHANGED response

\* the synchronous code that follows the retrieval of the candidates res:
\* the intent classifier, the no-results reply, the context builder
AfterRetrieval(res) ==
  IF isGeneralQuestion(message, res) /\ Len(res) = 0
  THEN /\ route' = "smallTalk"
       /\ pc' = "smallTalkProbe"
       /\ UNCHANGED <<requestedCount, uniqueResults, context, response>>
  ELSE IF Len(res) = 0
  THEN /\ route' = "noResults"
       /\ Respond(200, [reply |-> rephraseReply(message)])
       /\ UNCHANGED <<requestedCount, uniqueResults, context>>
  ELSE /\ route' = "recipe"
       /\ requestedCount' = requestedCountOf(message)
       /\ uniqueResults' = uniqueResultsOf(res)
       /\ context' =
            LET aiResults ==
                  aiResultsOf(requestedCountOf(message), uniqueResultsOf(res))
            IN contextOf(aiResults, Len(aiResults))
       /\ pc' = "probe"
       /\ UNCHANGED response

\* GenerateEmbedding that keeps the query vector as a row of the embeddings
\* table
GenerateEmbeddingStored(q) ==
  /\ pc = "generateEmbedding"
  /\ Call("generateEmbedding")
  /\ qEmbedding' = q
  /\ useVectorSearch' = TRUE
  /\ pc' = "vectorSearch"
  /\ embeddings' = embeddings \cup {[id |-> 0, recipeId |-> 0, vector |-> q]}
  /\ UNCHANGED <<elsewhere, history, twin, recipes, message, recipeCount, embeddingCountNum,
                 results,
                 requestedCount, uniqueResults, context, prompt,
                 ollamaAvailable, response, errors, route, generated>>

\* await generateEmbedding(message) returns the vector q
GenerateEmbedding(q) ==
  /\ pc = "generateEmbedding"
  /\ Call("generateEmbedding")
  /\ qEmbedding' = q
  /\ useVectorSearch' = TRUE
  /\ pc' = "vectorSearch"
  /\ UNCHANGED <<store, elsewhere, history, twin,
                 message, recipeCount, embeddingCountNum, results,
                 requestedCount, uniqueResults, context, prompt,
                 ollamaAvailable, response, errors,
                 route, generated>>

\* GenerateEmbeddingThrows without the local catch: the error escapes
GenerateEmbeddingThrowsUncaught(error) ==
  /\ pc = "generateEmbedding"
  /\ Call("generateEmbedding")
  /\ Caught("generateEmbedding", "topLevel", error)
  /\ Respond(errorResponse(error).status,
             errorResponse(error).body)
  /\ UNCHANGED <<store, elsewhere, history, twin,
                 message, recipeCount, embeddingCountNum, qEmbedding,
                 useVectorSearch, results, requestedCount, uniqueResults,
                 context, prompt, ollamaAvailable, route, generated>>

\* generateEmbedding(message) throws: caught, the text search comes next
GenerateEmbeddingThrows(error) ==
  /\ pc = "generateEmbedding"
  /\ Call("generateEmbedding")
  /\ Caught("generateEmbedding", "retrieval", error)
  /\ useVectorSearch' = FALSE
  /\ pc' = "textSearch"
  /\ UNCHANGED <<store, elsewhere, history, twin,
                 message, recipeCount, embeddingCountNum, qEmbedding,
                 results, requestedCount, uniqueResults, context, prompt,
                 ollamaAvailable, response,
                 route, generated>>

\* the nearest-neighbour query returns rows
VectorSearch(rows) ==
  /\ pc = "vectorSearch"
  /\ Call("nearestNeighbours")
  /\ results' = rows
  /\ IF Len(rows) = 0
     THEN /\ pc' = "textSearch"
          /\ UNCHANGED <<requestedCount, uniqueResults, context, response,
                         route>>
     ELSE AfterRetrieval(rows)
  /\ UNCHANGED <<store, elsewhere, history, twin,
                 message, recipeCount, embeddingCountNum, qEmbedding,
                 useVectorSearch, prompt, ollamaAvailable, errors,
                 generated>>

\* the nearest-neighbour query throws: caught, the text search comes next
VectorSearchThrows(error) ==
  /\ pc = "vectorSearch"
  /\ Call("nearestNeighbours")
  /\ Caught("nearestNeighbours", "retrieval", error)
  /\ useVectorSearch' = FALSE
  /\ pc' = "textSearch"
  /\ UNCHANGED <<store, elsewhere, history, twin,
                 message, recipeCount, embeddingCountNum, qEmbedding,
                 results, requestedCount, uniqueResults, context, prompt,
                 ollamaAvailable, response,
                 route, generated>>

\* the text search: findMany returns rows
TextSearch(rows) ==
  /\ pc = "textSearch"
  /\ LET terms == searchTerms(message)
         found == IF Len(terms) > 0
                  THEN scoredTopResults(rows, terms)
                  ELSE sampleResults(rows)
     IN /\ results' = found
        /\ AfterRetrieval(found)
  /\ Call("findMany")
  /\ UNCHANGED <<store, elsewhere, history, twin,
                 message, recipeCount, embeddingCountNum, qEmbedding,
                 useVectorSearch, prompt, ollamaAvailable, errors,
                 generated>>

\* findMany throws: the text search answers 500 itself
TextSearchThrows(error) ==
  /\ pc = "textSearch"
  /\ Call("findMany")
  /\ Caught("findMany", "textSearch", error)
  /\ Respond(500, [reply |-> TextSearchFailedReply])
  /\ UNCHANGED <<store, elsewhere, history, twin,
                 message, recipeCount, embeddingCountNum, qEmbedding,
                 useVectorSearch, results, requestedCount, uniqueResults,
                 context, prompt, ollamaAvailable,
                 route, generated>>

(***************************************************************************)
(* POST: answer synthesis.                                                 *)
(***************************************************************************)
\* small talk: await checkOllamaAvailable()
SmallTalkProbe(available) ==
  /\ pc = "smallTalkProbe"
  /\ Call("checkOllamaAvailable")
  /\ ollamaAvailable' = (IF available THEN "available" ELSE "unavailable")
  /\ IF available
     THEN pc' = "smallTalkGenerate" /\ UNCHANGED response
     ELSE \E reply \in cannedReplies(message) : Respond(200, [reply |-> reply])
  /\ UNCHANGED <<store, elsewhere, history, twin,
                 message, recipeCount, embeddingCountNum, qEmbedding,
                 useVectorSearch, results, requestedCount, uniqueResults,
                 context, prompt, errors,
                 route, generated>>

\* small talk: await generateText(generalPrompt) returns text
SmallTalkGenerate(text) ==
  /\ pc = "smallTalkGenerate"
  /\ Call("generateText")
  /\ prompt' = generalPromptOf(message)
  /\ generated' = text
  /\ Respond(200, [reply |-> text])
  /\ UNCHANGED <<store, elsewhere, history, twin,
                 message, recipeCount, embeddingCountNum, qEmbedding,
                 useVectorSearch, results, requestedCount, uniqueResults,
                 context, ollamaAvailable, errors,
                 route>>

\* SmallTalkGenerateThrows without the local catch: the error escapes
SmallTalkGenerateThrowsUncaught(error) ==
  /\ pc = "smallTalkGenerate"
  /\ Call("generateText")
  /\ prompt' = generalPromptOf(message)
  /\ Caught("generateText", "topLevel", error)
  /\ Respond(errorResponse(error).status,
             errorResponse(error).body)
  /\ UNCHANGED <<store, elsewhere, history, twin,
                 message, recipeCount, embeddingCountNum, qEmbedding,
                 useVectorSearch, results, requestedCount, uniqueResults,
                 context, ollamaAvailable, route, generated>>

\* small talk: generateText throws, the canned reply answers
SmallTalkGenerateThrows(error) ==
  /\ pc = "smallTalkGenerate"
  /\ Call("generateText")
  /\ prompt' = generalPromptOf(message)
  /\ Caught("generateText", "smallTalk", error)
  /\ \E reply \in cannedReplies(message) : Respond(200, [reply |-> reply])
  /\ UNCHANGED <<store, elsewhere, history, twin,
                 message, recipeCount, embeddingCountNum, qEmbedding,
                 useVectorSearch, results, requestedCount, uniqueResults,
                 context, ollamaAvailable,
                 route, generated>>

\* FallbackResponse that takes up the last turn of the history
FallbackResponseRecalling ==
  Respond(200,
          [reply |-> (IF history # <<>>
                      THEN history[Len(history)].content \o "\n\n"
                      ELSE "")
                       \o generateIntelligentFallbackResponse(
                            message, uniqueResults, requestedCount),
           sources |-> sourcesOf(results)])

\* the response of the catch (llmError) block
FallbackResponse ==
  Respond(200,
          [reply |-> generateIntelligentFallbackResponse(
                       message, uniqueResults, requestedCount),
           sources |-> sourcesOf(results)])

\* Probe whose answer is ignored: the generator is tried whatever it says
ProbeIgnored(available) ==
  /\ pc = "probe"
  /\ Call("checkOllamaAvailable")
  /\ ollamaAvailable' = (IF available THEN "available" ELSE "unavailable")
  /\ pc' = "generate"
  /\ UNCHANGED <<store, elsewhere, history, twin,
                 message, recipeCount, embeddingCountNum, qEmbedding,
                 useVectorSearch, results, requestedCount, uniqueResults,
                 context, prompt, errors, route, generated, response>>

\* recipe answer: await checkOllamaAvailable()
Probe(available) ==
  /\ pc = "probe"
  /\ Call("checkOllamaAvailable")
  /\ ollamaAvailable' = (IF available THEN "available" ELSE "unavailable")
  /\ IF available
     THEN pc' = "generate" /\ UNCHANGED response
     ELSE FallbackResponse
  /\ UNCHANGED <<store, elsewhere, history, twin,
                 message, recipeCount, embeddingCountNum, qEmbedding,
                 useVectorSearch, results, requestedCount, uniqueResults,
                 context, prompt, errors,
                 route, generated>>

\* recipe answer: await generateText(prompt) returns text
Generate(text) ==
  /\ pc = "generate"
  /\ Call("generateText")
  /\ prompt' = promptOf(message, requestedCount, context)
  /\ generated' = text
  /\ Respond(200, [reply |-> text, sources |-> sourcesOf(results)])
  /\ UNCHANGED <<store, elsewhere, history, twin,
                 message, recipeCount, embeddingCountNum, qEmbedding,
                 useVectorSearch, results, requestedCount, uniqueResults,
                 context, ollamaAvailable, errors,
                 route>>

\* GenerateThrows without the catch (llmError): the error escapes
GenerateThrowsUncaught(error) ==
  /\ pc = "generate"
  /\ Call("generateText")
  /\ prompt' = promptOf(message, requestedCount, context)
  /\ Caught("generateText", "topLevel", error)
  /\ Respond(errorResponse(error).status,
             errorResponse(error).body)
  /\ UNCHANGED <<store, elsewhere, history, twin,
                 message, recipeCount, embeddingCountNum, qEmbedding,
                 useVectorSearch, results, requestedCount, uniqueResults,
                 context, ollamaAvailable, route, generated>>

\* recipe answer: generateText throws, the template fallback answers
GenerateThrows(error) ==
  /\ pc = "generate"
  /\ Call("generateText")
  /\ prompt' = promptOf(message, requestedCount, context)
  /\ Caught("generateText", "llmFallback", error)
  /\ FallbackResponse
  /\ UNCHANGED <<store, elsewhere, history, twin,
                 message, recipeCount, embeddingCountNum, qEmbedding,
                 useVectorSearch, results, requestedCount, uniqueResults,
                 context, ollamaAvailable,
                 route, generated>>

Next ==
  \/ \E body \in Bodies : Receive(body.message, body.history)
  \/ RejectMissing
  \/ \E b \in BOOLEAN : CheckModel(b)
  \/ CountRecipes
  \/ \E e \in StoreErrors : CountRecipesThrows(e)
  \/ CountEmbeddings
  \/ \E e \in StoreErrors : CountEmbeddingsThrows(e)
  \/ \E q \in 0..MaxVec : GenerateEmbedding(q)
  \/ \E e \in EmbeddingErrors : GenerateEmbeddingThrows(e)
  \/ /\ pc = "vectorSearch"
     /\ \E rows \in nearestNeighbours(recipes, embeddings, qEmbedding) :
          VectorSearch(rows)
  \/ \E e \in QueryErrors : VectorSearchThrows(e)
  \/ /\ pc = "textSearch"
     /\ \E rows \in textSearchRows(recipes, message) : TextSearch(rows)
  \/ \E e \in StoreErrors : TextSearchThrows(e)
  \/ \E b \in BOOLEAN : SmallTalkProbe(b)
  \/ \E t \in GeneratedTexts : SmallTalkGenerate(t)
  \/ \E e \in GeneratorErrors : SmallTalkGenerateThrows(e)
  \/ \E b \in BOOLEAN : Probe(b)
  \/ \E t \in GeneratedTexts : Generate(t)
  \/ \E e \in GeneratorErrors : GenerateThrows(e)

Spec == Init /\ [][Next]_vars

(***************************************************************************)
(* The top-level catch on its own: the handler has thrown some error and   *)
(* the catch block classifies it.                                          *)
(***************************************************************************)
\* messages of errors, as the store client, the embedding model and the
\* providers word them
ThrownMessages ==
  {"Can't reach database server at db:5432",
   "Connection terminated unexpectedly",
   "connect ECONNREFUSED 127.0.0.1:5432",
   "P1001: the database server is unreachable",
   "relation \"Recipe\" does not exist",
   "The table public.Recipe does not exist in the current database.",
   "Invalid invocation, error code P2021",
   "Record required, error code P2001",
   "type \"vector\" does not exist",
   "operator does not exist: text <-> vector",
   "could not open extension control file for pgvector",
   "different vector dimensions 384 and 768",
   "Model not found",
   "trained model not found at models/recipe-embedder",
   "can't open file scripts/inference.py",
   "Python inference failed: No module named torch",
   "429 Too Many Requests",
   "rate limit exceeded",
   "Resource exhausted",
   "fetch failed",
   "Unexpected end of JSON input",
   "Please try later"}

\* the messages that go with a status of 429 on the error object
ThrottledMessages ==
  {"429 Too Many Requests", "rate limit exceeded", "Resource exhausted",
   "fetch failed", "Unexpected end of JSON input", "Please try later"}

ThrownNames == {"Error", "PrismaClientKnownRequestError"}

\* the errors the catch block is given
ThrownErrors ==
  {[name |-> n, message |-> m, status |-> NullInt] :
     n \in ThrownNames, m \in ThrownMessages}
    \cup {[name |-> n, message |-> m, status |-> 429] :
            n \in ThrownNames, m \in ThrottledMessages}

\* a request with a message whose handler has thrown error
CatchInit ==
  /\ recipes = {}
  /\ embeddings = {}
  /\ pc = "thrown"
  /\ message = "chicken pasta garlic"
  /\ recipeCount = NullInt
  /\ embeddingCountNum = NullInt
  /\ qEmbedding = NullInt
  /\ useVectorSearch = FALSE
  /\ results = <<>>
  /\ requestedCount = NullInt
  /\ uniqueResults = <<>>
  /\ context = ""
  /\ prompt = NULL
  /\ route = "none"
  /\ ollamaAvailable = "unknown"
  /\ generated = NULL
  /\ response = NoResponse
  /\ calls = <<>>
  /\ \E error \in ThrownErrors :
       errors = <<[at |-> "POST", by |-> "topLevel", error |-> error]>>
  /\ history = <<>>
  /\ twin = NoTwin
  /\ ElsewhereIdle

\* catch (error: any) { ... }: the response for the error thrown
TopLevelCatch ==
  /\ pc = "thrown"
  /\ LET error == errors[Len(errors)].error
     IN Respond(errorResponse(error).status, errorResponse(error).body)
  /\ UNCHANGED <<store, elsewhere, history, twin,
                 message, recipeCount, embeddingCountNum, qEmbedding,
                 useVectorSearch, results, requestedCount, uniqueResults,
                 context, prompt, ollamaAvailable, calls, errors, route,
                 generated>>

CatchNext == TopLevelCatch

SpecCatch == CatchInit /\ [][CatchNext]_vars

(***************************************************************************)
(* The handler asked the same thing twice: a request is answered and the   *)
(* client posts its message again with another history.                    *)
(***************************************************************************)
\* the messages of the repeated requests
TwinMessages == {NULL, CheckModelMessage, "hello", "chicken pasta garlic"}

\* a corpus of two recipes, one of them with an embedding
TwinInit ==
  /\ recipes = {PastaSalad, Untitled}
  /\ embeddings = EmbeddingsFor({PastaSalad})
  /\ RequestIdle
  /\ ElsewhereIdle

\* the request that has just been answered arrives again with the history h
ReceiveAgain(h) ==
  /\ pc = "done"
  /\ twin = NoTwin
  /\ h # history
  /\ twin' = [message |-> message, history |-> history,
              recipeCount |-> recipeCount,
              embeddingCountNum |-> embeddingCountNum,
              results |-> results, qEmbedding |-> qEmbedding,
              ollamaAvailable |-> ollamaAvailable, generated |-> generated,
              errors |-> errors, route |-> route, calls |-> calls,
              response |-> response]
  /\ message' = message
  /\ history' = h
  /\ pc' = "received"
  /\ recipeCount' = NullInt
  /\ embeddingCountNum' = NullInt
  /\ qEmbedding' = NullInt
  /\ useVectorSearch' = FALSE
  /\ results' = <<>>
  /\ requestedCount' = NullInt
  /\ uniqueResults' = <<>>
  /\ context' = ""
  /\ prompt' = NULL
  /\ route' = "none"
  /\ ollamaAvailable' = "unknown"
  /\ generated' = NULL
  /\ response' = NoResponse
  /\ calls' = <<>>
  /\ errors' = <<>>
  /\ UNCHANGED <<store, elsewhere>>

TwinNext ==
  \/ /\ pc = "idle"
     /\ \E m \in TwinMessages, h \in Histories : Receive(m, h)
  \/ \E h \in Histories : ReceiveAgain(h)
  \/ RejectMissing
  \/ \E b \in BOOLEAN : CheckModel(b)
  \/ CountRecipes
  \/ \E e \in StoreErrors : CountRecipesThrows(e)
  \/ CountEmbeddings
  \/ \E e \in StoreErrors : CountEmbeddingsThrows(e)
  \/ \E q \in 0..MaxVec : GenerateEmbedding(q)
  \/ \E e \in EmbeddingErrors : GenerateEmbeddingThrows(e)
  \/ /\ pc = "vectorSearch"
     /\ \E rows \in nearestNeighbours(recipes, embeddings, qEmbedding) :
          VectorSearch(rows)
  \/ \E e \in QueryErrors : VectorSearchThrows(e)
  \/ /\ pc = "textSearch"
     /\ \E rows \in textSearchRows(recipes, message) : TextSearch(rows)
  \/ \E e \in StoreErrors : TextSearchThrows(e)
  \/ \E b \in BOOLEAN : SmallTalkProbe(b)
  \/ \E t \in GeneratedTexts : SmallTalkGenerate(t)
  \/ \E e \in GeneratorErrors : SmallTalkGenerateThrows(e)
  \/ \E b \in BOOLEAN : Probe(b)
  \/ \E t \in GeneratedTexts : Generate(t)
  \/ \E e \in GeneratorErrors : GenerateThrows(e)

SpecTwin == TwinInit /\ [][TwinNext]_vars

(***************************************************************************)
(* generateEmbedding on its own: the local model first when it is there,   *)
(* then the Hugging Face models in list order.                             *)
(***************************************************************************)
HUGGINGFACE_MODELS ==
  <<"sentence-transformers/all-MiniLM-L6-v2",
    "sentence-transformers/all-mpnet-base-v2",
    "sentence-transformers/paraphrase-MiniLM-L6-v2">>

\* the number of dimensions of the vectors each model computes
ModelDimensions == <<384, 768, 384>>

\* the number of dimensions of the vectors of the local model
LocalModelDimensions == 384

\* an array of n numbers; only its length is kept
Vector(n) == [kind |-> "vector", length |-> n]

statusText(status) ==
  CASE status = 200 -> "OK"
    [] status = 400 -> "Bad Request"
    [] status = 410 -> "Gone"
    [] status = 429 -> "Too Many Requests"
    [] status = 500 -> "Internal Server Error"
    [] status = 503 -> "Service Unavailable"

\* the shapes of the JSON body of an ok response: [n, ...], [[n, ...]],
\* {embeddings: [[n, ...]]}, [] and {error: ...}
BodyShapes == {"flat", "nested", "embeddings", "empty", "object"}

\* what the inference API may answer for model number k
HuggingFaceResponses(k) ==
  {[status |-> 200, shape |-> f, dims |-> ModelDimensions[k]] :
     f \in BodyShapes}
    \cup {[status |-> st, shape |-> "object", dims |-> 0] :
            st \in {400, 410, 429, 500, 503}}

\* what fetch may throw
FetchErrors == {"fetch failed"}

\* what generateEmbeddingLocal may reject with
LocalErrors ==
  {"Python inference failed: No module named torch",
   "Failed to start Python process: spawn python3 ENOENT"}

ok(res) == res.status >= 200 /\ res.status <= 299

\* a value that is no array, or an array of length 0
NoArray == [kind |-> "none"]

\* the embedding taken out of the body of a first response
embeddingOf(data) ==
  CASE data.shape \in {"flat", "nested", "embeddings"} -> Vector(data.dims)
    [] data.shape \in {"empty", "object"} -> NoArray

\* Array.isArray(retryData) ? retryData[0] : retryData
retryEmbeddingOf(retryData) ==
  CASE retryData.shape = "nested" -> Vector(retryData.dims)
    [] retryData.shape = "flat" -> [kind |-> "number"]
    [] retryData.shape = "empty" -> [kind |-> "undefined"]
    [] retryData.shape \in {"embeddings", "object"} -> [kind |-> "object"]

\* the variables a call of generateEmbedding leaves alone
outsideEmbed == <<store, request, clearVars, pageVars, loader>>

\* generateEmbedding(text) is called
EmbedInit ==
  /\ recipes = {}
  /\ embeddings = {}
  /\ RequestIdle
  /\ ClearIdle
  /\ PageLoaded
  /\ LoaderIdle
  /\ localModel \in BOOLEAN
  /\ embedPc = IF localModel THEN "local" ELSE "fetch"
  /\ modelIndex = 1
  /\ lastError = NULL
  /\ fetches = <<>>
  /\ embedOutcome = NoOutcome

Fetched(res, isRetry) ==
  fetches' = Append(fetches, [model |-> modelIndex,
                              status |-> res.status,
                              retry |-> isRetry])

Return(value) ==
  /\ embedOutcome' = [kind |-> "returned", value |-> value]
  /\ embedPc' = "done"
  /\ UNCHANGED <<modelIndex, lastError>>

\* lastError is set and the loop goes to the next model; after the last
\* model the function throws
Continue(error) ==
  /\ lastError' = error
  /\ IF modelIndex < Len(HUGGINGFACE_MODELS)
     THEN /\ modelIndex' = modelIndex + 1
          /\ embedPc' = "fetch"
          /\ UNCHANGED embedOutcome
     ELSE /\ embedOutcome' = [kind |-> "thrown",
                              error |-> allModelsFailed(error)]
          /\ embedPc' = "done"
          /\ UNCHANGED modelIndex

\* generateEmbeddingLocal resolves
LocalResolves ==
  /\ embedPc = "local"
  /\ Return(Vector(LocalModelDimensions))
  /\ UNCHANGED <<outsideEmbed, localModel, fetches>>

\* generateEmbeddingLocal rejects: caught, the Hugging Face API comes next
LocalRejects(error) ==
  /\ embedPc = "local"
  /\ embedPc' = "fetch"
  /\ UNCHANGED <<outsideEmbed, localModel, modelIndex, lastError, fetches,
                 embedOutcome>>

\* the first fetch of a model answers
Fetch(res) ==
  /\ embedPc = "fetch"
  /\ Fetched(res, FALSE)
  /\ IF ~ok(res)
     THEN IF res.status = 503
          THEN /\ embedPc' = "retry"
               /\ UNCHANGED <<modelIndex, lastError, embedOutcome>>
          ELSE IF res.status = 410 \/ res.status >= 500
          THEN Continue("Model " \o HUGGINGFACE_MODELS[modelIndex]
                          \o " unavailable: " \o statusText(res.status))
          \* the throw of a 4xx is caught by the catch of the loop
          ELSE Continue("Hugging Face API error: "
                          \o statusText(res.status))
     ELSE IF embeddingOf(res) = NoArray
          THEN Continue("Invalid embedding format received")
          ELSE Return(embeddingOf(res))
  /\ UNCHANGED <<outsideEmbed, localModel>>

\* the first fetch of a model throws
FetchThrows(error) ==
  /\ embedPc = "fetch"
  /\ Fetched([status |-> NullInt], FALSE)
  /\ Continue(error)
  /\ UNCHANGED <<outsideEmbed, localModel>>

\* the fetch after the 5 seconds of a 503 answers
Retry(retryRes) ==
  /\ embedPc = "retry"
  /\ Fetched(retryRes, TRUE)
  /\ IF ~ok(retryRes)
     THEN Continue("Model " \o HUGGINGFACE_MODELS[modelIndex] \o " error: "
                     \o statusText(retryRes.status))
     ELSE Return(retryEmbeddingOf(retryRes))
  /\ UNCHANGED <<outsideEmbed, localModel>>

\* the fetch after the 5 seconds of a 503 throws
RetryThrows(error) ==
  /\ embedPc = "retry"
  /\ Fetched([status |-> NullInt], TRUE)
  /\ Continue(error)
  /\ UNCHANGED <<outsideEmbed, localModel>>

EmbedNext ==
  \/ LocalResolves
  \/ \E e \in LocalErrors : LocalRejects(e)
  \/ \E r \in HuggingFaceResponses(modelIndex) : Fetch(r)
  \/ \E e \in FetchErrors : FetchThrows(e)
  \/ \E r \in HuggingFaceResponses(modelIndex) : Retry(r)
  \/ \E e \in FetchErrors : RetryThrows(e)

SpecEmbed == EmbedInit /\ [][EmbedNext]_vars

(***************************************************************************)
(* The clear-database script: main() of the script, run once against a     *)
(* store that nothing else writes to.                                      *)
(***************************************************************************)
\* the recipes a store may hold before the script runs
ClearableRecipes == {ChickenPasta, PastaSalad, Untitled, GarlicChicken}

\* the rows of embs that reference the recipe r
Referencing(embs, r) == {e \in embs : e.recipeId = r.id}

\* the variables the script leaves alone
outsideClear == <<request, embedVars, pageVars, loader>>

\* the script starts on a store that satisfies the foreign key
ClearInit ==
  /\ recipes \in SUBSET ClearableRecipes
  /\ embeddings \in SUBSET EmbeddingsFor(recipes)
  /\ RequestIdle
  /\ EmbedIdle
  /\ PageLoaded
  /\ LoaderIdle
  /\ clearPc = "countRecipes"
  /\ clearLocals = NoCounts
  /\ clearLog = <<>>

Issued(statement, succeeded) ==
  clearLog' = Append(clearLog, [statement |-> statement, ok |-> succeeded])

\* const recipeCount = await prisma.recipe.count()
ClearCountRecipes ==
  /\ clearPc = "countRecipes"
  /\ Issued("countRecipes", TRUE)
  /\ clearLocals' = [clearLocals EXCEPT !.recipeCount = Cardinality(recipes)]
  /\ clearPc' = "countEmbeddings"
  /\ UNCHANGED <<store, outsideClear>>

\* the count of the embeddings and the return when the store is empty
ClearCountEmbeddings ==
  /\ clearPc = "countEmbeddings"
  /\ Issued("countEmbeddings", TRUE)
  /\ clearLocals' =
       [clearLocals EXCEPT !.embeddingCountNum = Cardinality(embeddings)]
  /\ clearPc' = IF clearLocals.recipeCount = 0 /\ Cardinality(embeddings) = 0
                THEN "done"
                ELSE "deleteEmbeddings"
  /\ UNCHANGED <<store, outsideClear>>

\* DELETE FROM "embeddings"
DeleteEmbeddings ==
  /\ clearPc = "deleteEmbeddings"
  /\ Issued("deleteEmbeddings", TRUE)
  /\ embeddings' = {}
  /\ clearPc' = "deleteRecipes"
  /\ UNCHANGED <<recipes, clearLocals, outsideClear>>

\* the deletion of the recipes where the script deletes the embeddings: a
\* recipe that an embedding references makes the statement fail (ON DELETE
\* RESTRICT)
DeleteRecipesFirst ==
  /\ clearPc = "deleteEmbeddings"
  /\ IF \E r \in recipes : Referencing(embeddings, r) # {}
     THEN /\ Issued("deleteRecipes", FALSE)
          /\ clearPc' = "done"
          /\ UNCHANGED recipes
     ELSE /\ Issued("deleteRecipes", TRUE)
          /\ recipes' = {}
          /\ UNCHANGED clearPc
  /\ UNCHANGED <<embeddings, clearLocals, outsideClear>>

\* await prisma.recipe.deleteMany(): a recipe that an embedding references
\* makes the statement fail (ON DELETE RESTRICT), which the catch takes
DeleteRecipes ==
  /\ clearPc = "deleteRecipes"
  /\ IF \E r \in recipes : Referencing(embeddings, r) # {}
     THEN /\ Issued("deleteRecipes", FALSE)
          /\ clearPc' = "done"
          /\ UNCHANGED recipes
     ELSE /\ Issued("deleteRecipes", TRUE)
          /\ recipes' = {}
          /\ clearPc' = "verifyRecipes"
  /\ UNCHANGED <<embeddings, clearLocals, outsideClear>>

\* const finalRecipeCount = await prisma.recipe.count()
VerifyRecipes ==
  /\ clearPc = "verifyRecipes"
  /\ Issued("verifyRecipes", TRUE)
  /\ clearLocals' =
       [clearLocals EXCEPT !.finalRecipeCount = Cardinality(recipes)]
  /\ clearPc' = "verifyEmbeddings"
  /\ UNCHANGED <<store, outsideClear>>

\* the final count of the embeddings; the script ends
VerifyEmbeddings ==
  /\ clearPc = "verifyEmbeddings"
  /\ Issued("verifyEmbeddings", TRUE)
  /\ clearLocals' =
       [clearLocals EXCEPT !.finalEmbeddingCountNum = Cardinality(embeddings)]
  /\ clearPc' = "done"
  /\ UNCHANGED <<store, outsideClear>>

\* the statement the script is at throws: the catch logs the error and the
\* script ends
ClearThrows(error) ==
  /\ clearPc \notin {"idle", "done"}
  /\ Issued(clearPc, FALSE)
  /\ clearPc' = "done"
  /\ UNCHANGED <<store, clearLocals, outsideClear>>

ClearNext ==
  \/ ClearCountRecipes
  \/ ClearCountEmbeddings
  \/ DeleteEmbeddings
  \/ DeleteRecipes
  \/ VerifyRecipes
  \/ VerifyEmbeddings
  \/ \E e \in StoreErrors : ClearThrows(e)

SpecClear == ClearInit /\ [][ClearNext]_vars

(***************************************************************************)
(* The chat page: the input field, send() and the settling of its fetch.   *)
(***************************************************************************)
\* the calls of send() and the milliseconds a run of the page covers
MaxSends == 4
MaxElapsed == 4000

\* the 2 seconds taken away: no interval between requests
noRequestInterval == 2000 - 2000

\* Minimum 2 seconds between requests
minRequestInterval == 2000

\* what the user may type into the input field
Typed == {"  ", "pasta"}

\* by how many milliseconds Date.now() may have advanced between two events
ClockSteps == {1000}

\* what /api/query may answer: status and the reply and error of the body
QueryResponses ==
  {[status |-> 200, reply |-> "Try the Chicken Pasta tonight.", error |-> NULL],
   [status |-> 429, reply |-> NULL, error |-> NULL],
   [status |-> 500, reply |-> NULL, error |-> "Message required"]}

\* Math.ceil((minRequestInterval - timeSinceLastRequest) / 1000)
waitTimeOf(timeSinceLastRequest) ==
  (minRequestInterval - timeSinceLastRequest + 999) \div 1000

pleaseWait(waitTime) ==
  [role |-> "bot",
   text |-> "Please wait " \o ToString(waitTime) \o " second"
              \o (IF waitTime > 1 THEN "s" ELSE "")
              \o " before sending another message."]

\* the bot message the page shows for a response
botMsgOf(res) ==
  [role |-> "bot",
   text |-> IF res.status = 429
            THEN (IF Truthy(res.reply) THEN res.reply
                  ELSE "Rate limit reached. Please wait a moment and try again.")
            ELSE IF Truthy(res.error) /\ ~Truthy(res.reply)
            THEN "Error: " \o res.error
            ELSE IF Truthy(res.reply) THEN res.reply
            ELSE "Sorry, I couldn't generate a response."]

\* the variables the page leaves alone
outsidePage == <<store, request, embedVars, clearVars, loader>>

PageInit ==
  /\ recipes = {}
  /\ embeddings = {}
  /\ RequestIdle
  /\ EmbedIdle
  /\ ClearIdle
  /\ PageLoaded
  /\ LoaderIdle

\* time passes
Tick(d) ==
  /\ clock + d <= PageLoadedAt + MaxElapsed
  /\ clock' = clock + d
  /\ UNCHANGED <<outsidePage, messages, input, isLoading, lastRequestTime,
                 requests, inFlight, sendCalls>>

\* onChange of the input field, which is disabled while isLoading
Type(text) ==
  /\ ~isLoading
  /\ input' = text
  /\ UNCHANGED <<outsidePage, messages, isLoading, lastRequestTime, clock,
                 requests, inFlight, sendCalls>>

\* send() up to its fetch
Send ==
  /\ sendCalls < MaxSends
  /\ sendCalls' = sendCalls + 1
  /\ LET now == clock
         timeSinceLastRequest == now - lastRequestTime
     IN IF trim(input) = "" \/ isLoading
        THEN UNCHANGED <<messages, input, isLoading, lastRequestTime,
                         requests, inFlight>>
        ELSE IF timeSinceLastRequest < minRequestInterval
        THEN /\ messages' =
                  Append(messages, pleaseWait(waitTimeOf(timeSinceLastRequest)))
             /\ UNCHANGED <<input, isLoading, lastRequestTime, requests,
                            inFlight>>
        ELSE /\ messages' = Append(messages, [role |-> "user", text |-> input])
             /\ input' = ""
             /\ isLoading' = TRUE
             /\ lastRequestTime' = now
             /\ requests' = Append(requests, [at |-> now, message |-> input,
                                              inFlight |-> inFlight])
             /\ inFlight' = inFlight + 1
  /\ UNCHANGED <<outsidePage, clock>>

\* the fetch of send() resolves with a response
Settle(res) ==
  /\ inFlight > 0
  /\ messages' = Append(messages, botMsgOf(res))
  /\ isLoading' = FALSE
  /\ inFlight' = inFlight - 1
  /\ UNCHANGED <<outsidePage, input, lastRequestTime, clock, requests,
                 sendCalls>>

\* the fetch of send() rejects
SettleFails ==
  /\ inFlight > 0
  /\ messages' =
       Append(messages,
              [role |-> "bot",
               text |-> "Error: Could not get response. Please check your connection and try again."])
  /\ isLoading' = FALSE
  /\ inFlight' = inFlight - 1
  /\ UNCHANGED <<outsidePage, input, lastRequestTime, clock, requests,
                 sendCalls>>

PageNext ==
  \/ \E d \in ClockSteps : Tick(d)
  \/ \E text \in Typed : Type(text)
  \/ Send
  \/ \E res \in QueryResponses : Settle(res)
  \/ SettleFails

SpecPage == PageInit /\ [][PageNext]_vars

(***************************************************************************)
(* The streaming loader: loadWithStreaming, its parser callbacks and       *)
(* processBatch.  An action is one run of the event loop: a callback or    *)
(* the resumption after an await, up to the next await.                    *)
(***************************************************************************)
\* Process 10 recipes at a time
BATCH_SIZE == 10

\* MAX_RECIPES_TO_LOAD of the run
MAX_RECIPES == 6

\* a row of the CSV file and what the store and the embedding model will
\* make of it: create and insert succeed or fail, embed is "ok", "fails" or
\* "noModel" (the trained model is not found)
CsvRow(n, create, embed, insert) ==
  [n |-> n, title |-> "Recipe " \o ToString(n), create |-> create,
   embed |-> embed, insert |-> insert]

GoodRows(count) == [n \in 1..count |-> CsvRow(n, TRUE, "ok", TRUE)]

\* the files of a run: good rows only (three, a batch, more than are read),
\* rows whose embedding fails, rows of every kind, and a file met without
\* the trained model
CsvFiles ==
  {GoodRows(3), GoodRows(BATCH_SIZE), GoodRows(2 * MAX_RECIPES + 1),
   [n \in 1..(2 * MAX_RECIPES + 1) |-> CsvRow(n, TRUE, "fails", TRUE)],
   [n \in 1..(2 * MAX_RECIPES) |->
      CsvRow(n, n % 4 # 1, IF n % 4 = 2 THEN "fails" ELSE "ok", n % 4 # 3)],
   <<CsvRow(1, TRUE, "ok", TRUE), CsvRow(2, TRUE, "noModel", TRUE),
     CsvRow(3, TRUE, "ok", TRUE)>>}

\* the data of prisma.recipe.create for the row r
RecipeOf(r, id) ==
  [id |-> id, title |-> IF Truthy(r.title) THEN r.title ELSE "Untitled",
   ingredients |-> "", instructions |-> "", prepTime |-> NullInt,
   cookTime |-> NullInt, totalTime |-> NullInt, cuisine |-> ""]

\* the execution i of processBatch returns; the complete callback that
\* awaits it goes on
batchReturns(L, i) ==
  [L EXCEPT !.running = SubSeq(@, 1, i - 1) \o SubSeq(@, i + 1, Len(@)),
            !.drain = IF L.running[i].awaited THEN "afterBatch" ELSE @]

RECURSIVE forOf(_, _)
RECURSIVE enterBatch(_, _)
RECURSIVE drainLoop(_)

\* the complete callback, which runs once
complete(L) == IF L.drain = "none" THEN drainLoop(L) ELSE L

\* abort() of the parser: no more rows, and complete is called
abort(L) ==
  IF L.stream = "open" THEN complete([L EXCEPT !.stream = "aborted"]) ELSE L

\* if (parser) parser.abort()
parserAbort(L) == IF L.parser THEN abort(L) ELSE L

\* the head of the for loop of the execution i, whose batch starts with the
\* next row
forOf(L, i) ==
  LET batch == L.running[i].batch
  IN IF batch = <<>>
     THEN batchReturns([L EXCEPT !.isProcessing = FALSE,
                             !.immediates =
                               IF L.batchQueue # <<>> THEN @ + 1 ELSE @], i)
     ELSE IF L.processedCount >= MAX_RECIPES
     THEN batchReturns(parserAbort([L EXCEPT !.shouldStop = TRUE]), i)
     ELSE [L EXCEPT !.running[i].at = "create",
                    !.handed = Append(@, Head(batch).n)]

\* enterBatch without the test of isProcessing
enterBatchUnguarded(L, awaited) ==
  IF L.batchQueue = <<>> THEN L
  ELSE LET size == Min(BATCH_SIZE, Len(L.batchQueue))
           started ==
             [L EXCEPT !.isProcessing = TRUE,
                       !.batchQueue = SubSeq(@, size + 1, Len(@)),
                       !.running =
                         Append(@, [batch |-> SubSeq(L.batchQueue, 1, size),
                                    at |-> "for", recipeId |-> NullInt,
                                    awaited |-> awaited])]
       IN forOf(started, Len(started.running))

\* processBatch() up to its first await; awaited says that the caller
\* awaits the promise
enterBatch(L, awaited) ==
  IF L.isProcessing \/ L.batchQueue = <<>> THEN L
  ELSE LET size == Min(BATCH_SIZE, Len(L.batchQueue))
           started ==
             [L EXCEPT !.isProcessing = TRUE,
                       !.batchQueue = SubSeq(@, size + 1, Len(@)),
                       !.running =
                         Append(@, [batch |-> SubSeq(L.batchQueue, 1, size),
                                    at |-> "for", recipeId |-> NullInt,
                                    awaited |-> awaited])]
       IN forOf(started, Len(started.running))

\* the while loop of the complete callback up to its next await
drainLoop(L) ==
  IF L.batchQueue # <<>> \/ L.isProcessing
  THEN LET entered == enterBatch(L, TRUE)
       IN IF Len(entered.running) > Len(L.running)
          THEN [entered EXCEPT !.drain = "awaitingBatch"]
          ELSE [entered EXCEPT !.drain = "afterBatch"]
  ELSE [L EXCEPT !.drain = "exited",
                 !.promise = IF @ = "pending" THEN "resolved" ELSE @]

\* the step callback for the next row of the file
step(L) ==
  LET r == L.csv[L.readPos + 1]
      read == [L EXCEPT !.readPos = @ + 1]
      counted == [read EXCEPT !.rowCount = @ + 1]
      pushed == [counted EXCEPT !.batchQueue = Append(@, r)]
  IN IF L.shouldStop THEN read
     ELSE IF counted.rowCount > MAX_RECIPES * 2
     THEN abort([counted EXCEPT !.shouldStop = TRUE])
     ELSE IF Len(pushed.batchQueue) >= BATCH_SIZE /\ ~pushed.isProcessing
     THEN enterBatch(pushed, FALSE)
     ELSE pushed

\* the catch of the for loop: the row of the execution i has thrown
caught(L, i, noModel) ==
  LET counted == [L EXCEPT !.errorCount = @ + 1]
  IN IF noModel
     THEN LET aborted == parserAbort([counted EXCEPT !.shouldStop = TRUE])
          IN batchReturns([aborted EXCEPT
                         !.promise = IF @ = "pending" THEN "rejected" ELSE @],
                      i)
     ELSE forOf([counted EXCEPT !.running[i].batch = Tail(@)], i)

\* the complete callback is about to go on after await processBatch(): the
\* promise it awaits is resolved, and its continuation is a microtask, which
\* runs before any callback of a timer, of setImmediate or of the store
MicrotaskPending(L) == L.drain = "afterBatch"

\* the variables the loader leaves alone
outsideLoader == <<request, embedVars, clearVars, pageVars>>

\* loadWithStreaming(filePath) is called on an empty store
LoaderInit ==
  /\ recipes = {}
  /\ embeddings = {}
  /\ RequestIdle
  /\ EmbedIdle
  /\ ClearIdle
  /\ PageLoaded
  /\ \E csv \in CsvFiles, parser \in BOOLEAN :
       loader = LoaderCalled(csv, parser)

\* the parser delivers the next row
Step ==
  /\ loader.stream = "open"
  /\ loader.readPos < Len(loader.csv)
  /\ loader' = step(loader)
  /\ UNCHANGED <<store, outsideLoader>>

\* the file has been read to its end: complete is called
EndOfFile ==
  /\ loader.stream = "open"
  /\ loader.readPos = Len(loader.csv)
  /\ loader' = complete([loader EXCEPT !.stream = "ended"])
  /\ UNCHANGED <<store, outsideLoader>>

\* await prisma.recipe.create(...) of the execution i settles
CreateSettles(i) ==
  /\ ~MicrotaskPending(loader)
  /\ i \in DOMAIN loader.running
  /\ loader.running[i].at = "create"
  /\ LET r == Head(loader.running[i].batch)
         id == Cardinality(recipes) + 1
     IN IF r.create
        THEN /\ recipes' = recipes \cup {RecipeOf(r, id)}
             /\ loader' = [loader EXCEPT !.running[i].at = "embed",
                                         !.running[i].recipeId = id]
        ELSE /\ loader' = caught(loader, i, FALSE)
             /\ UNCHANGED recipes
  /\ UNCHANGED <<embeddings, outsideLoader>>

\* await generateEmbedding(embedText) of the execution i settles
EmbeddingSettles(i) ==
  /\ ~MicrotaskPending(loader)
  /\ i \in DOMAIN loader.running
  /\ loader.running[i].at = "embed"
  /\ LET r == Head(loader.running[i].batch)
     IN loader' = IF r.embed = "ok"
                  THEN [loader EXCEPT !.running[i].at = "insert"]
                  ELSE caught(loader, i, r.embed = "noModel")
  /\ UNCHANGED <<store, outsideLoader>>

\* the INSERT INTO "embeddings" of the execution i settles
InsertSettles(i) ==
  /\ ~MicrotaskPending(loader)
  /\ i \in DOMAIN loader.running
  /\ loader.running[i].at = "insert"
  /\ LET e == loader.running[i]
         r == Head(e.batch)
     IN IF r.insert
        THEN /\ embeddings' =
                  embeddings \cup {[id |-> Cardinality(embeddings) + 1,
                                    recipeId |-> e.recipeId, vector |-> 0]}
             /\ loader' = forOf([loader EXCEPT
                                   !.processedCount = @ + 1,
                                   !.running[i].batch = Tail(@)], i)
        ELSE /\ loader' = caught(loader, i, FALSE)
             /\ UNCHANGED embeddings
  /\ UNCHANGED <<recipes, outsideLoader>>

\* a callback of setImmediate runs: processBatch()
Immediate ==
  /\ ~MicrotaskPending(loader)
  /\ loader.immediates > 0
  /\ loader' = enterBatch([loader EXCEPT !.immediates = @ - 1], FALSE)
  /\ UNCHANGED <<store, outsideLoader>>

\* the complete callback goes on after await processBatch()
DrainResumes ==
  /\ loader.drain = "afterBatch"
  /\ loader' = IF loader.batchQueue # <<>>
               THEN [loader EXCEPT !.drain = "sleeping"]
               ELSE drainLoop(loader)
  /\ UNCHANGED <<store, outsideLoader>>

\* the 100 ms of the complete callback are over
DrainWakes ==
  /\ loader.drain = "sleeping"
  /\ loader' = drainLoop(loader)
  /\ UNCHANGED <<store, outsideLoader>>

LoaderNext ==
  \/ Step
  \/ EndOfFile
  \/ \E i \in DOMAIN loader.running : CreateSettles(i)
  \/ \E i \in DOMAIN loader.running : EmbeddingSettles(i)
  \/ \E i \in DOMAIN loader.running : InsertSettles(i)
  \/ Immediate
  \/ DrainResumes
  \/ DrainWakes

SpecLoader == LoaderInit /\ [][LoaderNext]_vars

\* every callback that can run does run in the end
LoaderFairness ==
  /\ WF_vars(Step)
  /\ WF_vars(EndOfFile)
  /\ WF_vars(\E i \in DOMAIN loader.running : CreateSettles(i))
  /\ WF_vars(\E i \in DOMAIN loader.running : EmbeddingSettles(i))
  /\ WF_vars(\E i \in DOMAIN loader.running : InsertSettles(i))
  /\ WF_vars(Immediate)
  /\ WF_vars(DrainResumes)
  /\ WF_vars(DrainWakes)

SpecLoaderLive == LoaderInit /\ [][LoaderNext]_vars /\ LoaderFairness

(***************************************************************************)
(* Properties of the query-resolution pipeline.                            *)
(***************************************************************************)
Called(name) == \E i \in DOMAIN calls : calls[i] = name
Threw(site) == \E i \in DOMAIN errors : errors[i].at = site
HasField(f) == f \in DOMAIN response.body
Answered == pc = "done"

TemplateReply ==
  generateIntelligentFallbackResponse(message, uniqueResults, requestedCount)

\* every reply the canned small-talk answer can be
AllCannedReplies ==
  {CannedResponses[k] : k \in DOMAIN CannedResponses}
    \cup {g \o " I'm your AI chef assistant. How can I help you with recipes?" :
            g \in Greetings}

RECURSIVE WordsFrom(_, _, _, _)
\* the maximal runs of word characters of s
WordsFrom(s, i, cur, acc) ==
  IF i > Len(s) THEN (IF cur = "" THEN acc ELSE acc \cup {cur})
  ELSE IF IsWordChar(CharAt(s, i))
       THEN WordsFrom(s, i + 1, cur \o CharAt(s, i), acc)
       ELSE WordsFrom(s, i + 1, "", IF cur = "" THEN acc ELSE acc \cup {cur})

MessageWords(s) == WordsFrom(toLowerCase(s), 1, "", {})

\* the value of the first white-space separated token of s that is a number,
\* NullInt when there is none
FirstIntegerToken(s) ==
  LET tokens == split(s)
      isNumber(t) == t # "" /\ \A k \in 1..Len(t) : IsDigit(CharAt(t, k))
      numbers == {k \in 1..Len(tokens) : isNumber(tokens[k])}
  IN IF numbers = {} THEN NullInt
     ELSE parseInt(tokens[CHOOSE k \in numbers : \A j \in numbers : k <= j])

\* the number of occurrences of t in s
Occurrences(s, t) == Cardinality({i \in 1..Len(s) : StartsWithAt(s, i, t)})

\* the number of recipe entries of a context: each entry ends with a rule
EntryCount(ctx) == Occurrences(ctx, "\n---\n")

\* C1: whenever retrieval yielded candidates and the generator probe answered
\* false, the reply is the template fallback's and the response body carries
\* llmUnavailable = true.
C1_ProbeFalseFlagsLlmUnavailable ==
  (Answered /\ Len(results) > 0 /\ ollamaAvailable = "unavailable") =>
    /\ response.body.reply = TemplateReply
    /\ HasField("llmUnavailable")
    /\ response.body.llmUnavailable = TRUE

\* C2: with at least one candidate, a request whose generator is unavailable
\* or whose generator call threw is answered 200 with a non-empty reply made
\* by the template fallback from the candidates, with no generator output.
C2_FallbackAlwaysAnswers ==
  (/\ Answered
   /\ Len(results) > 0
   /\ ollamaAvailable = "unavailable" \/ Threw("generateText")) =>
    /\ response.status = 200
    /\ HasField("reply")
    /\ response.body.reply # ""
    /\ response.body.reply = TemplateReply
    /\ generated = NULL
    /\ \A i \in DOMAIN errors : errors[i].by # "topLevel"

C2_Witness ==
  /\ Answered
  /\ Len(results) > 0
  /\ Threw("generateText")
  /\ response.status = 200
  /\ response.body.reply # ""

C5_NoEmbeddingsSkipsSemanticPath ==
  (embeddingCountNum = 0 /\ recipeCount > 0) =>
    /\ ~Called("generateEmbedding")
    /\ ~Called("nearestNeighbours")

\* C6: generateText is called only after a probe of the same request answered
\* true; after a probe that answered false the generator is never called and
\* the request is answered with the fallback reply of its branch.
C6_GeneratorOnlyAfterProbeTrue ==
  /\ \A i \in DOMAIN calls :
       calls[i] = "generateText" =>
         /\ \E j \in 1..(i - 1) : calls[j] = "checkOllamaAvailable"
         /\ ollamaAvailable = "available"
  /\ ollamaAvailable = "unavailable" =>
       /\ ~Called("generateText")
       /\ Answered
       /\ response.status = 200
       /\ response.body.reply \in AllCannedReplies \cup {TemplateReply}

C6_Witness ==
  /\ Answered
  /\ Called("generateText")
  /\ ollamaAvailable = "available"
  /\ generated # NULL

\* C7: once the candidates are retrieved, the turn takes the small-talk branch
\* exactly when there is no candidate and the trimmed message is one of the
\* greeting phrases (whatever its case) or is shorter than 10 characters and
\* has none of the food keywords among its words; any candidate at all sends
\* the turn to the recipe-answering path.
C7_SmallTalkIffNoCandidateAndGreetingOrShort ==
  route # "none" =>
    /\ route = "smallTalk" <=>
         /\ Len(results) = 0
         /\ \/ toLowerCase(trim(message)) \in GreetingPhrases
            \/ /\ Len(trim(message)) < 10
               /\ MessageWords(message) \cap FoodKeywords = {}
    /\ Len(results) > 0 => route = "recipe"

C7_Witness ==
  /\ route = "smallTalk"
  /\ toLowerCase(trim(message)) \notin GreetingPhrases
  /\ Len(results) = 0

\* C8: a small-talk turn is answered 200 with the generator's output (probe
\* true, generation succeeded) or with a canned greeting (probe false or
\* generation threw); the response has no sources and no recipe context is
\* built or sent to the generator.
C8_SmallTalkReply ==
  (route = "smallTalk" /\ Answered) =>
    /\ response.status = 200
    /\ \/ /\ ollamaAvailable = "available"
          /\ ~Threw("generateText")
          /\ generated # NULL
          /\ response.body.reply = generated
       \/ /\ ollamaAvailable = "unavailable" \/ Threw("generateText")
          /\ generated = NULL
          /\ response.body.reply \in AllCannedReplies
    /\ ~HasField("sources")
    /\ context = ""
    /\ prompt # NULL =>
         /\ ~includes(prompt, "Recipe: ")
         /\ ~includes(prompt, "AVAILABLE RECIPES")

C8_Witness ==
  /\ route = "smallTalk"
  /\ Answered
  /\ Threw("generateText")
  /\ response.body.reply \in AllCannedReplies

\* C9: when the retrieval found no candidate and the turn is no small talk,
\* the request is answered 200 with the fixed rephrase suggestion and no
\* sources, and neither the probe nor the generator is called.
C9_NoResultsReply ==
  (route \notin {"none", "smallTalk"} /\ Len(results) = 0) =>
    /\ Answered
    /\ response.status = 200
    /\ response.body.reply = rephraseReply(message)
    /\ includes(response.body.reply, "(e.g., \"chicken pasta\" instead of")
    /\ ~HasField("sources")
    /\ ~Called("checkOllamaAvailable")
    /\ ~Called("generateText")

C9_Witness ==
  /\ route = "noResults"
  /\ Answered
  /\ message = "cake"
  /\ Called("findMany")

\* C10: the recipe context holds min(requested count, deduplicated count)
\* entries when the message has a positive requested count (its first integer
\* token) and min(3, deduplicated count) otherwise; they are the top of the
\* deduplicated list in rank order, and that context is what the generator
\* is sent.
C10_ContextEntryCount ==
  route = "recipe" =>
    LET n == EntryCount(context)
        asked == FirstIntegerToken(message)
    IN /\ n = IF asked > 0 THEN Min(asked, Len(uniqueResults))
              ELSE Min(3, Len(uniqueResults))
       /\ context = contextOf(Take(uniqueResults, n), n)
       /\ uniqueResults = uniqueResultsOf(results)
       /\ (message = "give me 2 recipes with chicken"
             /\ Len(uniqueResults) >= 2) => n = 2
       /\ prompt # NULL =>
            includes(prompt, "AVAILABLE RECIPES FROM DATABASE:\n" \o context
                               \o "\n\nINSTRUCTIONS:")

C10_Witness ==
  /\ route = "recipe"
  /\ message = "give me 2 recipes with chicken"
  /\ Len(uniqueResults) > 2
  /\ EntryCount(context) = 2
  /\ prompt # NULL

\* the request was answered by the template fallback of the recipe path
TemplateAnswered ==
  /\ Answered
  /\ route = "recipe"
  /\ ollamaAvailable = "unavailable" \/ Threw("generateText")

\* the reply lists the recipe r as its k-th entry: its numbered title, its
\* time when it has one and its ingredients, cut after 150 characters
ListsEntry(reply, k, r) ==
  /\ includes(reply, ToString(k) \o ". " \o r.title)
  /\ TotalTime(r) > 0 =>
       includes(reply, "   Time: " \o ToString(TotalTime(r)) \o " minutes")
  /\ r.ingredients # NULL =>
       includes(reply, "   Ingredients: "
                         \o slice0(replaceAll(r.ingredients, ",", ", "), 150))

\* C11: when the template fallback answers a message that requests N recipes
\* and at least N deduplicated candidates exist, the reply lists exactly the
\* first N of them, each with its title, its time and its truncated
\* ingredients.
C11_TemplateListsRequestedCount ==
  (/\ TemplateAnswered
   /\ requestedCount > 0
   /\ Len(uniqueResults) >= requestedCount) =>
    \A k \in 1..Len(uniqueResults) :
      IF k <= requestedCount
      THEN ListsEntry(response.body.reply, k, uniqueResults[k])
      ELSE ~includes(response.body.reply,
                     ToString(k) \o ". " \o uniqueResults[k].title)

\* the title of a candidate as the deduplication compares it
TitleKey(r) == toLowerCase(trim(r.title))

\* the places of list whose title no earlier place bears
FirstBearers(list) ==
  {i \in 1..Len(list) :
     \A j \in 1..(i - 1) : TitleKey(list[j]) # TitleKey(list[i])}

\* the subsequence of list at the places of the set at
SubsequenceAt(list, at) ==
  [k \in 1..Cardinality(at) |->
     list[CHOOSE i \in at : Cardinality({j \in at : j <= i}) = k]]

\* C12 as stated: the deduplicated list is the subsequence of the candidates
\* that keeps, for each trimmed case-insensitive title, exactly the first
\* candidate bearing it; no two of its entries have equal titles.
C12_DedupKeepsFirstOfEveryTitle ==
  route = "recipe" =>
    /\ uniqueResults = SubsequenceAt(results, FirstBearers(results))
    /\ \A i, j \in 1..Len(uniqueResults) :
         i # j => TitleKey(uniqueResults[i]) # TitleKey(uniqueResults[j])

\* C12 amended: the deduplicated list is the subsequence of the candidates
\* that keeps, for each trimmed case-insensitive title that is not empty,
\* exactly the first candidate bearing it, and drops every candidate whose
\* trimmed title is empty; no two of its entries have equal titles.
C12_DedupKeepsFirstOfEveryNonBlankTitle ==
  route = "recipe" =>
    /\ uniqueResults =
         SubsequenceAt(results, {i \in FirstBearers(results) :
                                   TitleKey(results[i]) # ""})
    /\ \A i, j \in 1..Len(uniqueResults) :
         i # j => TitleKey(uniqueResults[i]) # TitleKey(uniqueResults[j])

C12_Witness ==
  /\ route = "recipe"
  /\ Len(uniqueResults) >= 2
  /\ \E i, j \in 1..Len(results) :
       /\ i < j
       /\ results[i].title # results[j].title
       /\ TitleKey(results[i]) = TitleKey(results[j])
       /\ \E k \in 1..Len(uniqueResults) : uniqueResults[k] = results[i]
       /\ \A k \in 1..Len(uniqueResults) : uniqueResults[k] # results[j]

\* C13: once the retrieval is over, by the vector search, the scored text
\* search or the sample, there are at most 5 candidates, each with a numeric
\* distance, in the order of non-decreasing distance.
C13_CandidatesBoundedAndOrdered ==
  route # "none" =>
    /\ Len(results) <= 5
    /\ \A i \in 1..Len(results) :
         /\ "distance" \in DOMAIN results[i]
         /\ results[i].distance \in Int
    /\ \A i \in 1..(Len(results) - 1) :
         results[i].distance <= results[i + 1].distance

C13_Witness ==
  /\ route = "recipe"
  /\ Called("findMany")
  /\ Len(searchTerms(message)) > 0
  /\ Len(results) >= 4
  /\ \A i \in 1..(Len(results) - 1) :
       results[i].distance < results[i + 1].distance

\* the recipes of the corpus that match a term in their ingredients, their
\* title or their instructions
MatchingRecipes(terms) ==
  {r \in recipes :
     \E k \in 1..Len(terms) :
       \/ ContainsInsensitive(r.ingredients, terms[k])
       \/ ContainsInsensitive(r.title, terms[k])
       \/ ContainsInsensitive(r.instructions, terms[k])}

\* the text search of the request ran with a usable term and returned
LexicalPathRan ==
  /\ route # "none"
  /\ Called("findMany")
  /\ Len(searchTerms(message)) > 0

\* C14: when the lexical path runs with a usable term (and the message sets
\* no preparation-time limit), the candidates are the 5 highest-scoring of
\* all the recipes of the corpus that match a term, all of them if fewer
\* than 5 match, in descending score order: no matching recipe that is left
\* out scores strictly higher than a returned one.
C14_LexicalTopFiveOfAllMatching ==
  (LexicalPathRan /\ maxPrepTime(message) = NullInt) =>
    LET terms == searchTerms(message)
        matching == MatchingRecipes(terms)
        returned == {results[i].id : i \in 1..Len(results)}
    IN /\ Len(results) = Min(5, Cardinality(matching))
       /\ returned \subseteq {r.id : r \in matching}
       /\ \A i \in 1..(Len(results) - 1) :
            relevanceScore(results[i], terms)
              >= relevanceScore(results[i + 1], terms)
       /\ \A r \in matching :
            r.id \notin returned =>
              \A i \in 1..Len(results) :
                relevanceScore(r, terms) <= relevanceScore(results[i], terms)

\* C15: a request whose message is missing or empty makes no call at all (no
\* store query, no embedding call, no probe, no generator call) and is
\* answered with status 400.
C15_MissingMessageRejectedBeforeIO ==
  (pc # "idle" /\ message \in {NULL, ""}) =>
    /\ calls = <<>>
    /\ errors = <<>>
    /\ Answered => response.status = 400

C15_Witness ==
  /\ Answered
  /\ message = ""
  /\ response.status = 400
  /\ calls = <<>>

\* C16: every response to a request other than the model check, on the
\* success paths and on the failure paths alike, carries a reply string
\* together with its HTTP status.
C16_EveryResponseCarriesReply ==
  (Answered /\ message # CheckModelMessage) =>
    /\ response.status \in {200, 400, 429, 500}
    /\ HasField("reply")
    /\ response.body.reply \in STRING

\* the error tells of a rate limit: HTTP 429 or a rate-limit message
RateLimitSignal(error) ==
  \/ error.status = 429
  \/ includes(error.message, "429")
  \/ includes(toLowerCase(error.message), "rate limit")
  \/ includes(error.message, "Too Many Requests")
  \/ includes(error.message, "Resource exhausted")

\* the calls of the request to the generator and to the embedding provider
\* that failed with a rate-limit signal
RateLimitedProviderCalls ==
  {i \in DOMAIN errors :
     /\ errors[i].at \in {"generateText", "generateEmbedding"}
     /\ RateLimitSignal(errors[i].error)}

RateLimitReply == "Rate limit reached. Please wait a moment and try again."

\* C17: a request in which the generator or the embedding provider failed
\* with a rate-limit signal is answered with status 429 and the rate-limit
\* reply.
C17_ProviderRateLimitAnswered429 ==
  (Answered /\ RateLimitedProviderCalls # {}) =>
    /\ response.status = 429
    /\ HasField("reply")
    /\ response.body.reply = RateLimitReply

\* how many times the request called name
Attempts(name) == Cardinality({i \in DOMAIN calls : calls[i] = name})

\* the handler is no longer at the call of name: it fell through to the next
\* step of the pipeline or answered
MovedOn(name) ==
  IF name = "generateEmbedding" THEN pc # "generateEmbedding"
  ELSE pc \notin {"generate", "smallTalkGenerate"}

\* C18: when the pipeline moves on after a generator or embedding call that
\* failed with a rate-limit signal, the call has been retried, with at most 3
\* attempts in all; after a failure of any other kind it has been tried once.
C18_RateLimitRetriedBounded ==
  \A i \in DOMAIN errors :
    (/\ errors[i].at \in {"generateText", "generateEmbedding"}
     /\ MovedOn(errors[i].at)) =>
      IF RateLimitSignal(errors[i].error)
      THEN Attempts(errors[i].at) \in 2..3
      ELSE Attempts(errors[i].at) = 1

\* the signatures of the classes of errors the top-level handler tells apart
ConnectivitySignature(error) ==
  \/ includes(error.message, "Can't reach database server")
  \/ includes(error.message, "Connection")
  \/ includes(error.message, "ECONNREFUSED")
  \/ includes(error.message, "P1001")

VectorExtensionSignature(error) ==
  \/ includes(error.message, "vector")
  \/ includes(error.message, "pgvector")
  \/ includes(error.message, "operator does not exist")

\* a missing table: what does not exist is no operator and no vector type
MissingSchemaSignature(error) ==
  \/ includes(error.message, "relation")
  \/ includes(error.message, "P2021")
  \/ includes(error.message, "P2001")
  \/ includes(error.message, "does not exist")
       /\ ~VectorExtensionSignature(error)

MissingModelSignature(error) ==
  \/ includes(error.message, "Model not found")
  \/ includes(error.message, "trained model not found")
  \/ includes(error.message, "inference.py")
  \/ includes(error.message, "Python")

TopLevelRateLimitSignature(error) ==
  \/ error.status = 429
  \/ includes(error.message, "429")
  \/ includes(error.message, "rate limit")
  \/ includes(error.message, "Resource exhausted")

\* the response has the status and its reply begins with the words
AnsweredWith(status, words) ==
  /\ response.status = status
  /\ HasField("reply")
  /\ StartsWithAt(response.body.reply, 1, words)

C20_StoreNeverMutated ==
  [][recipes' = recipes /\ embeddings' = embeddings]_vars

C20_Witness ==
  /\ Answered
  /\ recipes # {}
  /\ Called("recipe.count")
  /\ Called("embeddings.count")
  /\ Called("nearestNeighbours")
  /\ Called("findMany")
  /\ Called("generateText")

\* the candidate lists the text search may produce for a message against a
\* corpus, one for each result findMany may return
LexicalOutcomes(rows, msg) ==
  {IF Len(searchTerms(msg)) > 0
   THEN scoredTopResults(found, searchTerms(msg))
   ELSE sampleResults(found) : found \in textSearchRows(rows, msg)}

\* C21: whenever the lexical path is about to run, every run of it with this
\* message against this corpus returns the same candidates in the same
\* order: the text search has exactly one possible candidate list, also when
\* matching recipes tie on the score or on the sort key of the store and
\* more recipes match than the store query fetches.
C21_LexicalPathDeterministic ==
  pc = "textSearch" =>
    Cardinality(LexicalOutcomes(recipes, message)) = 1

CorpusDimensions == 384

\* C22: every vector generateEmbedding returns has the fixed dimension of
\* the corpus, 384, whichever provider produced it: the local model, the
\* first Hugging Face model or a later one reached after earlier ones
\* failed.
C22_EmbeddingHasCorpusDimensions ==
  embedOutcome.kind = "returned" =>
    embedOutcome.value = Vector(CorpusDimensions)

\* a 4xx status other than 410
ClientError(status) == status >= 400 /\ status <= 499 /\ status # 410

\* C28: a 4xx response other than 410 to the first fetch of a model makes
\* generateEmbeddingWithHuggingFace fail at once with a Hugging Face API
\* error: the fetch is the last one of the call and the call has thrown
\* that error.
C28_ClientErrorFailsImmediately ==
  \A i \in DOMAIN fetches :
    (~fetches[i].retry /\ ClientError(fetches[i].status)) =>
      /\ i = Len(fetches)
      /\ embedOutcome.kind = "thrown"
      /\ StartsWithAt(embedOutcome.error.message, 1, "Hugging Face API error")

(***************************************************************************)
(* Properties of the clear-database script.                                *)
(***************************************************************************)
\* the places of the log where statement was issued
IssuedAt(statement) ==
  {i \in DOMAIN clearLog : clearLog[i].statement = statement}

Succeeded(statement) ==
  \E i \in IssuedAt(statement) : clearLog[i].ok

\* C24: the script issues the deletion of the embeddings before the
\* deletion of the recipes, no step deletes a recipe that an embedding row
\* still references, and once both deletions have succeeded the Recipe
\* table and the embeddings table are empty, which is also what the final
\* counts of the script say.
C24_EmbeddingsDeletedBeforeRecipes ==
  /\ [](/\ \A i \in IssuedAt("deleteRecipes") :
             \E j \in IssuedAt("deleteEmbeddings") : j < i
        /\ (Succeeded("deleteEmbeddings") /\ Succeeded("deleteRecipes")) =>
             /\ recipes = {}
             /\ embeddings = {}
             /\ clearLocals.finalRecipeCount \in {NullInt, 0}
             /\ clearLocals.finalEmbeddingCountNum \in {NullInt, 0})
  /\ [][\A r \in recipes \ recipes' : Referencing(embeddings, r) = {}]_vars

\* a run over a store with recipes and embeddings deleted both and counted
\* the tables again
C24_Witness ==
  /\ clearPc = "done"
  /\ clearLocals.recipeCount > 1
  /\ clearLocals.embeddingCountNum > 0
  /\ Succeeded("deleteEmbeddings")
  /\ Succeeded("deleteRecipes")
  /\ clearLocals.finalRecipeCount = 0
  /\ clearLocals.finalEmbeddingCountNum = 0

(***************************************************************************)
(* Properties of the chat page.                                            *)
(***************************************************************************)
\* this step is a call of send() that the 2-second rule rejects
RejectedSend ==
  /\ sendCalls' = sendCalls + 1
  /\ trim(input) # ""
  /\ ~isLoading
  /\ clock - lastRequestTime < 2000

\* C29: send() issues no request to /api/query while an earlier one is in
\* flight and none less than 2000 ms after the previous accepted send; a
\* call of send() that the 2-second rule rejects issues no request, appends
\* exactly one bot message that begins with "Please wait", and leaves the
\* input text, isLoading and lastRequestTime as they were.
C29_SendSpacedAndRejectionHarmless ==
  /\ [](/\ \A i \in DOMAIN requests : requests[i].inFlight = 0
        /\ \A i \in 1..(Len(requests) - 1) :
             requests[i + 1].at - requests[i].at >= 2000)
  /\ [][RejectedSend =>
          /\ requests' = requests
          /\ inFlight' = inFlight
          /\ Len(messages') = Len(messages) + 1
          /\ SubSeq(messages', 1, Len(messages)) = messages
          /\ messages'[Len(messages')].role = "bot"
          /\ StartsWithAt(messages'[Len(messages')].text, 1, "Please wait")
          /\ input' = input
          /\ isLoading' = isLoading
          /\ lastRequestTime' = lastRequestTime]_vars

\* a send was accepted and answered, a send a second later was rejected
\* with "Please wait 1 second", and a send after the 2 seconds was accepted
C29_Witness ==
  /\ Len(requests) = 2
  /\ inFlight = 1
  /\ \E i \in DOMAIN messages :
       messages[i] = pleaseWait(1)

(***************************************************************************)
(* Properties of the handler over two requests.                            *)
(***************************************************************************)
\* what isModelAvailable() found, which only the body of the model check
\* shows
ModelFound(res) ==
  IF "modelAvailable" \in DOMAIN res.body THEN res.body.modelAvailable
  ELSE FALSE

\* the repeated request has been answered, and the store, the providers and
\* the file system answered it as they answered the first one
SameOutcomes ==
  /\ pc = "done"
  /\ twin # NoTwin
  /\ recipeCount = twin.recipeCount
  /\ embeddingCountNum = twin.embeddingCountNum
  /\ results = twin.results
  /\ qEmbedding = twin.qEmbedding
  /\ ollamaAvailable = twin.ollamaAvailable
  /\ generated = twin.generated
  /\ errors = twin.errors
  /\ ModelFound(response) = ModelFound(twin.response)

ReadingOver == loader.stream # "open"

\* the drain loop has exited and the promise is resolved or rejected
Settled == loader.drain = "exited" /\ loader.promise # "pending"

\* the entries of a sequence are pairwise different
NoRepeats(seq) ==
  \A j, k \in DOMAIN seq : j # k => seq[j] # seq[k]

\* C25: once the CSV has been fully read or parsing has been aborted, the
\* drain loop of the complete callback exits and the promise that
\* loadWithStreaming returned is resolved or rejected, also when the limit
\* of MAX_RECIPES is reached inside a batch or a batch is in flight when
\* reading completes.
C25_LoaderEventuallySettles == ReadingOver ~> Settled

\* C26: under every interleaving of the step callbacks, the complete
\* callback and the completions of batches, at most one execution of
\* processBatch is inside its processing section, and no row of the file is
\* handed to prisma.recipe.create more than once.
C26_OneBatchAtATime ==
  /\ Len(loader.running) <= 1
  /\ loader.running # <<>> => loader.isProcessing
  /\ NoRepeats(loader.handed)

\* a batch is in flight, the complete callback has called processBatch with
\* rows in the queue and has been turned away
C26_Witness ==
  /\ Len(loader.running) = 1
  /\ loader.isProcessing
  /\ loader.drain \in {"afterBatch", "sleeping"}
  /\ loader.batchQueue # <<>>
  /\ Len(loader.handed) > 1

\* C27: one run of the streaming loader never creates more than MAX_RECIPES
\* recipe rows, whatever rows fail or succeed.
C27_AtMostMaxRecipesCreated == Cardinality(recipes) <= MAX_RECIPES

====
